---- MODULE Spec2Model ----
(***************************************************************************)
(* AKSView: a memory-mapped file viewer (src/aksview.c, first revision in  *)
(* the file, lines 1-2117, POSIX build).                                   *)
(*                                                                         *)
(* The model follows the C code function by function.  A C function that   *)
(* takes the viewer pointer becomes an operator on a "context" record c:   *)
(*   c.pv     the AKSVIEW structure (fields named as in the struct)        *)
(*   c.file   the bytes of the file as the kernel presents them; a shared  *)
(*            mapping stores straight into it                              *)
(*   c.disk   the bytes on stable storage; msync copies a range to it      *)
(*   c.region the part of the file the pointer pv->pw maps: [off, len]     *)
(*   c.calls  the backend calls issued so far by the running API call      *)
(*   c.fault  line of the fault() that ended the call, 0 if none; the      *)
(*            default handler exits the process, so nothing runs after it  *)
(*   c.warns  lines of the warn() calls made                               *)
(*   c.oob    TRUE once a byte outside the mapped region was indexed       *)
(*   c.ret    the value a read function returns                            *)
(*   c.status the value aksview_setlen returns                             *)
(*   c.rc     the result of the last backend call                          *)
(*   c.mtime  the file's last-modified time ("old" until close sets it)    *)
(*   c.fails  the backend calls the operating system refuses in this call  *)
(*   c.exists the path names a file                                        *)
(*   c.perr   the error code aksview_create writes through perr            *)
(*                                                                         *)
(* An integer value of width W is the sequence of its W bytes, least       *)
(* significant first (two's complement for the signed types); memcpy       *)
(* between a value and a byte buffer goes through the host byte order.     *)
(*                                                                         *)
(* The model is the POSIX build, except under SpecMapping, which follows   *)
(* the Windows build (AKS_WIN) for the life of the file-mapping object:    *)
(* there c.pv has the field fh_map, and the calls the two builds share are *)
(* logged under their POSIX names (msync for FlushViewOfFile, munmap for   *)
(* UnmapViewOfFile, close for CloseHandle of the file).  The Windows       *)
(* branch of mapByte has unbalanced braces.  The specifications share the  *)
(* actions: Spec (every operation, the operating system free to refuse a   *)
(* call, a few typed locations), SpecAccess (every typed location, nothing *)
(* refused), SpecReadOnly (every typed location on a read-only viewer),    *)
(* SpecWindow (the window derivation over hints, page sizes and lengths    *)
(* up to the limits of their types), SpecCreate (aksview_create and the    *)
(* use of the viewer it returns), SpecMapping, SpecScan (a byte-by-byte    *)
(* pass over a whole file) and SpecOffsets (a file of AKSVIEW_MAXLEN bytes *)
(* and offsets at the ends of the offset type, which is scaled to 32 bits).*)
(***************************************************************************)
EXTENDS Integers, Sequences, FiniteSets, TLC

\* ------------------------------------------------------------------ bounds

\* Longest file the model opens or resizes to.
MaxLen == 16

\* Longest file the sequential scan runs over.
MaxScan == 40

\* ------------------------------------------------------- program constants

FLAG_RO == 1
FLAG_LE == 2
FLAG_DT == 4
FLAG_UT == 8

AKSVIEW_DEFAULT_HINT == 16777216

\* INT64_MAX / 2 in the source.  The model's integers are 32 bits wide, so
\* the offset domain is scaled: as in the source the constant lies above the
\* one-gigabyte ceiling of the window and an eight-byte access below it does
\* not leave the integers; every file whose bytes are modelled is far below.
AKSVIEW_MAXLEN == 2147483639

\* The largest value of the offset type int64_t, scaled like AKSVIEW_MAXLEN
\* to the 32 bits of the model's integers; the smallest is 0 - INT64_MAX - 1.
INT64_MAX == 2147483647

\* The largest value of int32_t, the type of hint, pgsize and wlen.
INT32_MAX == 2147483647

\* The ceiling of the window size in computeWindow.
ONE_GIGABYTE == 1073741824

NULL == "NULL"
MAPPED == "MAPPED"
MAP_FAILED == "MAP_FAILED"

\* No part of the file is mapped.
NoRegion == [off |-> 0, len |-> 0]

\* ----------------------------------------------------------- input domains

Widths == {1, 2, 4, 8}
Offsets == (0 - 1) .. MaxLen
Hints == {0, 8, 12, AKSVIEW_DEFAULT_HINT}
Lens == {0, 12, MaxLen}
PageSizes == {8}

\* Offsets at the edges of the offset type and of the longest file: the
\* smallest and the largest int64_t, the offsets around 0, and the offsets
\* around AKSVIEW_MAXLEN, the last of which begin integers that end on the
\* last byte of a file of that length.
EdgeOffsets ==
  {0 - INT64_MAX - 1, 0 - 1, 0, 1, INT64_MAX - 7, INT64_MAX}
  \cup ((AKSVIEW_MAXLEN - 9) .. (AKSVIEW_MAXLEN + 1))
EdgeProbes ==
  {[W |-> 1, sgn |-> s, pos |-> o, le |-> TRUE] : s \in BOOLEAN, o \in EdgeOffsets}
  \cup [W : {2, 4, 8}, sgn : BOOLEAN, pos : EdgeOffsets, le : BOOLEAN]

\* Inputs of the sequential scan: files of one byte, of one window, and of
\* several windows with a short last one; hints that give windows of 8, 16
\* and 24 bytes or of the whole file.
ScanLens == {1, 8, 20, MaxScan}
ScanHints == {8, 12, 24, AKSVIEW_DEFAULT_HINT}

\* Inputs of the window derivation alone: page sizes getPageSize accepts (at
\* least 8 and a multiple of 8), hints of the int32_t range, and lengths up
\* to AKSVIEW_MAXLEN, with the values around each threshold of computeWindow.
WindowPageSizes ==
  {8, 16, 24, 4096, 65536, (ONE_GIGABYTE \div 2) + 8, ONE_GIGABYTE - 8,
   ONE_GIGABYTE + 8, INT32_MAX - 7}
WindowHints ==
  {0 - INT32_MAX - 1, 0 - 1, 0, 7, 8, 9, 16, 24, 25, 4095, 4096, 4097, 65536,
   AKSVIEW_DEFAULT_HINT, ONE_GIGABYTE - 1, ONE_GIGABYTE, ONE_GIGABYTE + 1, INT32_MAX}
WindowLens ==
  {0, 1, 8, 12, 24, 4096, 100000, ONE_GIGABYTE - 1, ONE_GIGABYTE,
   ONE_GIGABYTE + 8, ONE_GIGABYTE + 16, AKSVIEW_MAXLEN}

\* The byte the file holds at offset i before the viewer touches it.
OrigByte(i) == 16 + i

\* The bytes added by a growing file on POSIX (a hole reads as zero).
HoleByte == 0

\* The value a client stores: its bytes are distinct and differ from every
\* original byte.
StoreValues(W) == {[i \in 1..W |-> 160 + i]}

\* --------------------------------------------------------- byte sequences

RECURSIVE Reverse(_)
Reverse(s) == IF s = <<>> THEN <<>> ELSE Append(Reverse(Tail(s)), Head(s))

\* memcpy(buf, &v, W): the object representation of v on this host.
ToMem(v, hostLE) == IF hostLE THEN v ELSE Reverse(v)

\* memcpy(&v, buf, W): the value whose object representation is buf.
FromMem(buf, hostLE) == IF hostLE THEN buf ELSE Reverse(buf)

\* FlipNeeded with the host's byte order left out of the test.
FlipNeededHostBlind(le, flags) == ~le

\* (le ^ pv->flags) & FLAG_LE, le already replaced by FLAG_LE when non-zero.
FlipNeeded(le, flags) == le # (FLAG_LE \in flags)

\* ------------------------------------------------------------- fault, warn

Fault(c, line) == [c EXCEPT !.fault = line]
Warn(c, line) == [c EXCEPT !.warns = Append(@, line)]
Faulted(c) == c.fault # 0

\* -------------------------------------------------------- mapping backend

WinLen(pv) == pv.wlast - pv.wfirst + 1

\* One call to the operating system, as the log c.calls records it.
BackendCall(f, off, len, prot) == [f |-> f, off |-> off, len |-> len, prot |-> prot]

\* msync(pv->pw, wlast - wfirst + 1, MS_SYNC): on success that many bytes
\* from the start of the mapped region reach stable storage.
msync(c) ==
  LET call == BackendCall("msync", c.region.off, WinLen(c.pv), "")
      c1 == [c EXCEPT !.calls = Append(@, call)]
  IN IF "msync" \in c.fails
     THEN [c1 EXCEPT !.rc = 0 - 1]
     ELSE [c1 EXCEPT !.rc = 0,
               !.disk = [i \in DOMAIN c.disk |->
                           IF c.region.off <= i /\ i < c.region.off + WinLen(c.pv)
                              /\ i \in DOMAIN c.file
                           THEN c.file[i] ELSE c.disk[i]]]

\* munmap(pv->pw, wlast - wfirst + 1)
munmap(c) ==
  LET call == BackendCall("munmap", c.region.off, WinLen(c.pv), "")
  IN IF "munmap" \in c.fails
     THEN [c EXCEPT !.calls = Append(@, call), !.rc = 0 - 1]
     ELSE [c EXCEPT !.calls = Append(@, call), !.rc = 0, !.region = NoRegion]

\* mmap(0, ws, prot, flags, pv->fh, w): the pointer, or MAP_FAILED.
mmap(c, ws, prot, w) ==
  LET call == BackendCall("mmap", w, ws, prot)
  IN IF "mmap" \in c.fails
     THEN [c EXCEPT !.calls = Append(@, call), !.pv.pw = MAP_FAILED]
     ELSE [c EXCEPT !.calls = Append(@, call), !.pv.pw = MAPPED,
                    !.region = [off |-> w, len |-> ws]]

\* The build: the AKSVIEW structure has the field fh_map only when AKS_WIN
\* is defined.
AksWin(c) == "fh_map" \in DOMAIN c.pv

\* CreateFileMapping(pv->fh, NULL, protect, 0, 0, NULL): the handle of a new
\* mapping object, or NULL.  The operating system gives no PAGE_READWRITE
\* object on a file handle opened with GENERIC_READ alone (the READONLY mode).
CreateFileMapping(c, protect) ==
  LET call == BackendCall("CreateFileMapping", 0, 0, protect)
  IN IF protect = "PAGE_READWRITE" /\ FLAG_RO \in c.pv.flags
     THEN [c EXCEPT !.calls = Append(@, call), !.pv.fh_map = NULL]
     ELSE [c EXCEPT !.calls = Append(@, call), !.pv.fh_map = "OBJECT"]

\* MapViewOfFile(pv->fh_map, access, w, ws): a view of ws bytes at w, or of
\* the rest of the file when ws is 0; NULL without a mapping object.
MapViewOfFile(c, access, w, ws) ==
  LET call == BackendCall("MapViewOfFile", w, ws, access)
  IN IF c.pv.fh_map = NULL
     THEN [c EXCEPT !.calls = Append(@, call), !.pv.pw = NULL]
     ELSE [c EXCEPT !.calls = Append(@, call), !.pv.pw = MAPPED,
                    !.region = [off |-> w, len |-> IF ws = 0 THEN c.pv.flen - w ELSE ws]]

\* CloseHandle(pv->fh_map)
CloseHandle(c) ==
  [c EXCEPT !.calls = Append(@, BackendCall("CloseHandle", 0, 0, "")), !.rc = 0]

\* ------------------------------------------------------- windowing engine

\* WindowLength that goes up to the next page boundary also from a boundary.
WindowLengthRoundsUpAlways(hint, pgsize, flen) ==
  LET wl1 == IF hint < pgsize THEN pgsize ELSE hint
      wl2 == IF wl1 > ONE_GIGABYTE THEN ONE_GIGABYTE ELSE wl1
      wl3 == ((wl2 \div pgsize) + 1) * pgsize
  IN IF wl3 > flen THEN flen ELSE wl3

\* WindowLength whose ceiling lets a length of one gigabyte plus one through.
WindowLengthCeilingOffByOne(hint, pgsize, flen) ==
  LET wl1 == IF hint < pgsize THEN pgsize ELSE hint
      wl2 == IF wl1 > ONE_GIGABYTE + 1 THEN ONE_GIGABYTE ELSE wl1
      wl3 == IF (wl2 % pgsize) # 0 THEN ((wl2 \div pgsize) + 1) * pgsize ELSE wl2
  IN IF wl3 > flen THEN flen ELSE wl3

\* WindowLength that rounds up to a multiple of 8 whatever the page size.
WindowLengthRoundsToEight(hint, pgsize, flen) ==
  LET wl1 == IF hint < pgsize THEN pgsize ELSE hint
      wl2 == IF wl1 > ONE_GIGABYTE THEN ONE_GIGABYTE ELSE wl1
      wl3 == IF (wl2 % 8) # 0 THEN ((wl2 \div 8) + 1) * 8 ELSE wl2
  IN IF wl3 > flen THEN flen ELSE wl3

\* WindowLength without the rounding up to a page boundary.
WindowLengthUnrounded(hint, pgsize, flen) ==
  LET wl1 == IF hint < pgsize THEN pgsize ELSE hint
      wl2 == IF wl1 > ONE_GIGABYTE THEN ONE_GIGABYTE ELSE wl1
  IN IF wl2 > flen THEN flen ELSE wl2

\* The window length computeWindow derives from hint, pgsize and flen.
WindowLength(hint, pgsize, flen) ==
  LET wl1 == IF hint < pgsize THEN pgsize ELSE hint
      wl2 == IF wl1 > ONE_GIGABYTE THEN ONE_GIGABYTE ELSE wl1
      wl3 == IF (wl2 % pgsize) # 0 THEN ((wl2 \div pgsize) + 1) * pgsize ELSE wl2
  IN IF wl3 > flen THEN flen ELSE wl3

\* The window size as the header derives it for aksview_sethint: the larger
\* of hint and page size, rounded up to a page boundary, then the smaller of
\* that and the file size.  Written so that no intermediate value leaves the
\* 32-bit integers: a rounded value at or above flen is never formed.
DocWindowSize(hint, pgsize, flen) ==
  LET adjusted == IF hint < pgsize THEN pgsize ELSE hint
      below == (adjusted \div pgsize) * pgsize
  IN IF adjusted >= flen THEN flen
     ELSE IF adjusted % pgsize = 0 THEN adjusted
     ELSE IF below >= flen - pgsize THEN flen
     ELSE below + pgsize

\* computeWindow stores the derived length in wlen; its return value says
\* whether the length changed (ComputeWindowChanged, on the state before).
ComputeWindowChanged(c) ==
  c.pv.wlen # WindowLength(c.pv.hint, c.pv.pgsize, c.pv.flen)

computeWindow(c) ==
  IF Faulted(c) THEN c
  ELSE IF c.pv.flen < 0 \/ c.pv.flen > AKSVIEW_MAXLEN THEN Fault(c, 415)
  ELSE IF c.pv.pgsize < 8 \/ (c.pv.pgsize % 8) # 0 THEN Fault(c, 418)
  ELSE [c EXCEPT !.pv.wlen = WindowLength(c.pv.hint, c.pv.pgsize, c.pv.flen)]

\* aksview_flush that keeps the dirty flag when msync is refused, so that the
\* flush is tried again.
aksview_flushRetries(c) ==
  IF Faulted(c) THEN c
  ELSE IF FLAG_DT \in c.pv.flags /\ c.pv.pw # NULL
  THEN LET Synced(c1) ==
             IF c1.rc # 0 THEN Warn(c1, 1256)
             ELSE [c1 EXCEPT !.pv.flags = (@ \ {FLAG_DT}) \cup ({FLAG_DT} \ @)]
       IN Synced(msync(c))
  ELSE c

\* aksview_flush that leaves the dirty flag set.
aksview_flushKeepsDirty(c) ==
  IF Faulted(c) THEN c
  ELSE IF FLAG_DT \in c.pv.flags /\ c.pv.pw # NULL
  THEN LET Synced(c1) == IF c1.rc # 0 THEN Warn(c1, 1256) ELSE c1
       IN Synced(msync(c))
  ELSE c

\* aksview_flush that clears the update-timestamp flag with the dirty flag.
aksview_flushClearsTimestamp(c) ==
  IF Faulted(c) THEN c
  ELSE IF FLAG_DT \in c.pv.flags /\ c.pv.pw # NULL
  THEN LET Synced(c1) ==
             [(IF c1.rc # 0 THEN Warn(c1, 1256) ELSE c1)
                EXCEPT !.pv.flags = @ \ {FLAG_DT, FLAG_UT}]
       IN Synced(msync(c))
  ELSE c

aksview_flush(c) ==
  IF Faulted(c) THEN c
  ELSE IF FLAG_DT \in c.pv.flags /\ c.pv.pw # NULL
  THEN LET Synced(c1) ==
             [(IF c1.rc # 0 THEN Warn(c1, 1256) ELSE c1)
                EXCEPT !.pv.flags = (@ \ {FLAG_DT}) \cup ({FLAG_DT} \ @)]
       IN Synced(msync(c))
  ELSE c

\* unview that writes the window back but leaves the dirty flag set.
unviewSyncsOnly(c) ==
  IF Faulted(c) THEN c
  ELSE IF c.pv.pw # NULL
  THEN LET Unmapped(c2) ==
             [(IF c2.rc # 0 THEN Warn(c2, 517) ELSE c2)
                EXCEPT !.pv.pw = NULL, !.pv.wfirst = 0 - 1, !.pv.wlast = 0 - 1]
           Synced(c1) == IF FLAG_DT \in c1.pv.flags THEN msync(c1) ELSE c1
       IN Unmapped(munmap(Synced(c)))
  ELSE c

\* unview that treats a refused munmap as fatal.
unviewFaultsOnFailure(c) ==
  IF Faulted(c) THEN c
  ELSE IF c.pv.pw # NULL
  THEN LET Unmapped(c2) ==
             IF c2.rc # 0 THEN Fault(c2, 517)
             ELSE [c2 EXCEPT !.pv.pw = NULL, !.pv.wfirst = 0 - 1, !.pv.wlast = 0 - 1]
       IN Unmapped(munmap(aksview_flush(c)))
  ELSE c

\* unview that releases the window without flushing it first.
unviewNoFlush(c) ==
  IF Faulted(c) THEN c
  ELSE IF c.pv.pw # NULL
  THEN LET Unmapped(c2) ==
             [(IF c2.rc # 0 THEN Warn(c2, 517) ELSE c2)
                EXCEPT !.pv.pw = NULL, !.pv.wfirst = 0 - 1, !.pv.wlast = 0 - 1]
       IN Unmapped(munmap(c))
  ELSE c

unview(c) ==
  IF Faulted(c) THEN c
  ELSE IF c.pv.pw # NULL
  THEN LET Unmapped(c2) ==
             [(IF c2.rc # 0 THEN Warn(c2, 517) ELSE c2)
                EXCEPT !.pv.pw = NULL, !.pv.wfirst = 0 - 1, !.pv.wlast = 0 - 1]
       IN Unmapped(munmap(aksview_flush(c)))
  ELSE c

\* unmap: on POSIX the same as unview (there is no mapping object); on
\* Windows the mapping object, if there is one, is closed after the unview.
unmap(c) ==
  LET Closed(c1) ==
        IF Faulted(c1) THEN c1
        ELSE IF AksWin(c1)
        THEN IF c1.pv.fh_map # NULL
             THEN [CloseHandle(c1) EXCEPT !.pv.fh_map = NULL]
             ELSE c1
        ELSE c1
  IN Closed(unview(c))

\* Prot that asks for a writable mapping whatever the mode.
ProtReadWrite(c) == "PROT_READ|PROT_WRITE"

\* The protection mapByte asks mmap for.
Prot(c) == IF FLAG_RO \in c.pv.flags THEN "PROT_READ" ELSE "PROT_READ|PROT_WRITE"

\* mapByte of the Windows build, with its statements grouped as the braces
\* of lines 590-663 group them.  The brace that should open the branch of
\* "if (pv->flags & FLAG_RO)" at line 593 is missing, so the "else" of line
\* 601 pairs with "if (pv->fh_map == NULL)", the brace of line 613 ends the
\* block of the window miss, the view is mapped and the bounds are set on
\* every call with w and ws still 0 after a hit, and the brace of line 663
\* has no partner (the translation unit does not compile under AKS_WIN).
mapByteWin(c, b) ==
  IF Faulted(c) THEN c
  ELSE IF b < 0 \/ b >= c.pv.flen THEN Fault(c, 562)
  ELSE LET miss == b < c.pv.wfirst \/ b > c.pv.wlast
           w == IF miss THEN (b \div c.pv.wlen) * c.pv.wlen ELSE 0
           ws == IF miss
                 THEN (IF c.pv.flen - w < c.pv.wlen THEN c.pv.flen - w ELSE c.pv.wlen)
                 ELSE 0
           Placed(c3) ==
             IF c3.pv.pw = NULL THEN Fault(c3, 655)
             ELSE [c3 EXCEPT !.pv.wfirst = w, !.pv.wlast = (w - 1) + ws]
           View(c2) ==
             IF Faulted(c2) THEN c2
             ELSE Placed(MapViewOfFile(c2, IF FLAG_RO \in c2.pv.flags
                                           THEN "FILE_MAP_READ"
                                           ELSE "FILE_MAP_READ|FILE_MAP_WRITE", w, ws))
           Checked(c2) == IF c2.pv.fh_map = NULL THEN Fault(c2, 611) ELSE c2
           Object(c1) ==
             IF Faulted(c1) THEN c1
             ELSE IF c1.pv.fh_map = NULL
             THEN Checked(IF FLAG_RO \in c1.pv.flags
                          THEN CreateFileMapping(c1, "PAGE_READONLY") ELSE c1)
             ELSE Checked(CreateFileMapping(c1, "PAGE_READWRITE"))
       IN IF miss THEN View(Object(unview(c))) ELSE View(c)

\* mapByte that maps a window only when none is mapped.
mapByteStale(c, b) ==
  IF Faulted(c) THEN c
  ELSE IF b < 0 \/ b >= c.pv.flen THEN Fault(c, 562)
  ELSE IF c.pv.pw = NULL
  THEN LET Placed(c2, w, ws) ==
             IF c2.pv.pw = MAP_FAILED THEN Fault(c2, 636)
             ELSE [c2 EXCEPT !.pv.wfirst = w, !.pv.wlast = (w - 1) + ws]
           Request(c1, w) ==
             LET r == c1.pv.flen - w
                 ws == IF r < c1.pv.wlen THEN r ELSE c1.pv.wlen
             IN Placed(mmap(c1, ws, Prot(c1), w), w, ws)
       IN Request(c, (b \div c.pv.wlen) * c.pv.wlen)
  ELSE c

\* mapByte that maps the window again on every call.
mapByteAlwaysRemaps(c, b) ==
  IF Faulted(c) THEN c
  ELSE IF b < 0 \/ b >= c.pv.flen THEN Fault(c, 562)
  ELSE LET Placed(c2, w, ws) ==
             IF c2.pv.pw = MAP_FAILED THEN Fault(c2, 636)
             ELSE [c2 EXCEPT !.pv.wfirst = w, !.pv.wlast = (w - 1) + ws]
           Request(c1, w) ==
             LET r == c1.pv.flen - w
                 ws == IF r < c1.pv.wlen THEN r ELSE c1.pv.wlen
             IN Placed(mmap(c1, ws, Prot(c1), w), w, ws)
           Remap(c1) == Request(c1, (b \div c1.pv.wlen) * c1.pv.wlen)
       IN Remap(unview(c))

\* mapByte that always requests a whole window, also at the end of the file.
mapByteWholeWindow(c, b) ==
  IF Faulted(c) THEN c
  ELSE IF b < 0 \/ b >= c.pv.flen THEN Fault(c, 562)
  ELSE IF b < c.pv.wfirst \/ b > c.pv.wlast
  THEN LET Placed(c2, w, ws) ==
             IF c2.pv.pw = MAP_FAILED THEN Fault(c2, 636)
             ELSE [c2 EXCEPT !.pv.wfirst = w, !.pv.wlast = (w - 1) + ws]
           Request(c1, w) == Placed(mmap(c1, c1.pv.wlen, Prot(c1), w), w, c1.pv.wlen)
           Remap(c1) == Request(c1, (b \div c1.pv.wlen) * c1.pv.wlen)
       IN Remap(unview(c))
  ELSE c

\* mapByte that starts the new window at a multiple of the page size.
mapByteAlignsToPage(c, b) ==
  IF Faulted(c) THEN c
  ELSE IF b < 0 \/ b >= c.pv.flen THEN Fault(c, 562)
  ELSE IF b < c.pv.wfirst \/ b > c.pv.wlast
  THEN LET Placed(c2, w, ws) ==
             IF c2.pv.pw = MAP_FAILED THEN Fault(c2, 636)
             ELSE [c2 EXCEPT !.pv.wfirst = w, !.pv.wlast = (w - 1) + ws]
           Request(c1, w) ==
             LET r == c1.pv.flen - w
                 ws == IF r < c1.pv.wlen THEN r ELSE c1.pv.wlen
             IN Placed(mmap(c1, ws, Prot(c1), w), w, ws)
           Remap(c1) == Request(c1, (b \div c1.pv.pgsize) * c1.pv.pgsize)
       IN Remap(unview(c))
  ELSE c

\* mapByte that unmaps the old window on a miss without flushing it.
mapByteDropsWindow(c, b) ==
  IF Faulted(c) THEN c
  ELSE IF b < 0 \/ b >= c.pv.flen THEN Fault(c, 562)
  ELSE IF b < c.pv.wfirst \/ b > c.pv.wlast
  THEN LET Placed(c2, w, ws) ==
             IF c2.pv.pw = MAP_FAILED THEN Fault(c2, 636)
             ELSE [c2 EXCEPT !.pv.wfirst = w, !.pv.wlast = (w - 1) + ws]
           Request(c1, w) ==
             LET r == c1.pv.flen - w
                 ws == IF r < c1.pv.wlen THEN r ELSE c1.pv.wlen
             IN Placed(mmap(c1, ws, Prot(c1), w), w, ws)
           Remap(c1) == Request(c1, (b \div c1.pv.wlen) * c1.pv.wlen)
       IN Remap(unviewNoFlush(c))
  ELSE c

\* mapByte that maps the new window over the old one without unmapping it.
mapByteKeepsOld(c, b) ==
  IF Faulted(c) THEN c
  ELSE IF b < 0 \/ b >= c.pv.flen THEN Fault(c, 562)
  ELSE IF b < c.pv.wfirst \/ b > c.pv.wlast
  THEN LET Placed(c2, w, ws) ==
             IF c2.pv.pw = MAP_FAILED THEN Fault(c2, 636)
             ELSE [c2 EXCEPT !.pv.wfirst = w, !.pv.wlast = (w - 1) + ws]
           Request(c1, w) ==
             LET r == c1.pv.flen - w
                 ws == IF r < c1.pv.wlen THEN r ELSE c1.pv.wlen
             IN Placed(mmap(c1, ws, Prot(c1), w), w, ws)
           Remap(c1) == Request(c1, (b \div c1.pv.wlen) * c1.pv.wlen)
       IN Remap(aksview_flush(c))
  ELSE c

\* mapByte whose range check also turns away the last byte of the file.
mapByteStrict(c, b) ==
  IF Faulted(c) THEN c
  ELSE IF b < 0 \/ b + 1 >= c.pv.flen THEN Fault(c, 562)
  ELSE IF b < c.pv.wfirst \/ b > c.pv.wlast
  THEN LET Placed(c2, w, ws) ==
             IF c2.pv.pw = MAP_FAILED THEN Fault(c2, 636)
             ELSE [c2 EXCEPT !.pv.wfirst = w, !.pv.wlast = (w - 1) + ws]
           Request(c1, w) ==
             LET r == c1.pv.flen - w
                 ws == IF r < c1.pv.wlen THEN r ELSE c1.pv.wlen
             IN Placed(mmap(c1, ws, Prot(c1), w), w, ws)
           Remap(c1) == Request(c1, (b \div c1.pv.wlen) * c1.pv.wlen)
       IN Remap(unview(c))
  ELSE c

\* Range check, then on a miss: unview, window start w = b - (b % wlen),
\* size ws = min(wlen, flen - w), mmap, and the new window bounds.
mapByte(c, b) ==
  IF Faulted(c) THEN c
  ELSE IF AksWin(c) THEN mapByteWin(c, b)
  ELSE IF b < 0 \/ b >= c.pv.flen THEN Fault(c, 562)
  ELSE IF b < c.pv.wfirst \/ b > c.pv.wlast
  THEN LET Placed(c2, w, ws) ==
             IF c2.pv.pw = MAP_FAILED THEN Fault(c2, 636)
             ELSE [c2 EXCEPT !.pv.wfirst = w, !.pv.wlast = (w - 1) + ws]
           Request(c1, w) ==
             LET r == c1.pv.flen - w
                 ws == IF r < c1.pv.wlen THEN r ELSE c1.pv.wlen
             IN Placed(mmap(c1, ws, Prot(c1), w), w, ws)
           Remap(c1) == Request(c1, (b \div c1.pv.wlen) * c1.pv.wlen)
       IN Remap(unview(c))
  ELSE c

\* ------------------------------------------------------ typed access layer

\* (pv->pw)[idx] is inside the mapped region.
InWindow(c, idx) == c.pv.pw = MAPPED /\ 0 <= idx /\ idx < c.region.len

\* What a load outside the mapped region yields is undefined; c.oob records
\* that it happened.
UndefByte == 0 - 1

PwLoad(c, idx) == IF InWindow(c, idx) THEN c.file[c.region.off + idx] ELSE UndefByte

PwStore(c, idx, byte) ==
  IF InWindow(c, idx)
  THEN [c EXCEPT !.file[c.region.off + idx] = byte]
  ELSE [c EXCEPT !.oob = TRUE]

RECURSIVE PwStoreAll(_, _, _)
PwStoreAll(c, idx, bytes) ==
  IF bytes = <<>> THEN c
  ELSE PwStoreAll(PwStore(c, idx, Head(bytes)), idx + 1, Tail(bytes))

HostLE(c) == FLAG_LE \in c.pv.flags

\* FastRead that maps the first byte of the integer instead of the last.
FastReadFirstByte(c, pos, le, W) ==
  LET Loaded(c1) ==
        IF Faulted(c1) THEN c1
        ELSE LET base == pos - c1.pv.wfirst
                 raw == [i \in 1..W |-> PwLoad(c1, base + (i - 1))]
                 bb == IF FlipNeeded(le, c1.pv.flags) THEN Reverse(raw) ELSE raw
             IN [c1 EXCEPT !.ret = FromMem(bb, HostLE(c1)),
                           !.oob = @ \/ (\E i \in 0..(W - 1) : ~InWindow(c1, base + i))]
  IN Loaded(mapByte(c, pos))

\* The aligned branch of the read functions: map the last byte, copy the W
\* bytes at pos - wfirst .. pos - wfirst + W - 1 into bb (reversed when the
\* requested and the host order differ), memcpy bb into the result.
FastRead(c, pos, le, W) ==
  LET Loaded(c1) ==
        IF Faulted(c1) THEN c1
        ELSE LET base == pos - c1.pv.wfirst
                 raw == [i \in 1..W |-> PwLoad(c1, base + (i - 1))]
                 bb == IF FlipNeeded(le, c1.pv.flags) THEN Reverse(raw) ELSE raw
             IN [c1 EXCEPT !.ret = FromMem(bb, HostLE(c1)),
                           !.oob = @ \/ (\E i \in 0..(W - 1) : ~InWindow(c1, base + i))]
  IN Loaded(mapByte(c, pos + (W - 1)))

\* The aligned branch of the write functions: memcpy v into bb, map the
\* last byte, fault on a read-only viewer, store the W bytes (reversed when
\* the orders differ), then set the dirty and update-timestamp flags.
FastWrite(c, pos, le, W, v, roLine) ==
  LET bb == ToMem(v, HostLE(c))
      Flagged(c2) == [c2 EXCEPT !.pv.flags = @ \cup {FLAG_DT, FLAG_UT}]
      Stored(c1) ==
        IF Faulted(c1) THEN c1
        ELSE IF FLAG_RO \in c1.pv.flags THEN Fault(c1, roLine)
        ELSE Flagged(PwStoreAll(c1, pos - c1.pv.wfirst,
                                IF FlipNeeded(le, c1.pv.flags) THEN Reverse(bb) ELSE bb))
  IN Stored(mapByte(c, pos + (W - 1)))

aksview_read8u(c, pos) ==
  LET Loaded(c1) ==
        IF Faulted(c1) THEN c1
        ELSE [c1 EXCEPT !.ret = <<PwLoad(c1, pos - c1.pv.wfirst)>>,
                        !.oob = @ \/ ~InWindow(c1, pos - c1.pv.wfirst)]
  IN Loaded(mapByte(c, pos))

aksview_read8s(c, pos) ==
  LET Loaded(c1) ==
        IF Faulted(c1) THEN c1
        ELSE [c1 EXCEPT !.ret = <<PwLoad(c1, pos - c1.pv.wfirst)>>,
                        !.oob = @ \/ ~InWindow(c1, pos - c1.pv.wfirst)]
  IN Loaded(mapByte(c, pos))

\* Write8 without the read-only check.
Write8Unguarded(c, pos, v, roLine) ==
  LET Stored(c1) ==
        IF Faulted(c1) THEN c1
        ELSE PwStore([c1 EXCEPT !.pv.flags = @ \cup {FLAG_DT, FLAG_UT}],
                     pos - c1.pv.wfirst, v[1])
  IN Stored(mapByte(c, pos))

\* mapByte, the read-only check, the two flags, then the store.
Write8(c, pos, v, roLine) ==
  LET Stored(c1) ==
        IF Faulted(c1) THEN c1
        ELSE IF FLAG_RO \in c1.pv.flags THEN Fault(c1, roLine)
        ELSE PwStore([c1 EXCEPT !.pv.flags = @ \cup {FLAG_DT, FLAG_UT}],
                     pos - c1.pv.wfirst, v[1])
  IN Stored(mapByte(c, pos))

aksview_write8u(c, pos, v) == Write8(c, pos, v, 1302)

aksview_write8s(c, pos, v) == Write8(c, pos, v, 1322)

\* Read16 whose unaligned branch assembles the two bytes the wrong way round.
Read16Swapped(c, pos, le, roughLine) ==
  IF Faulted(c) THEN c
  ELSE IF pos < 0 \/ pos >= AKSVIEW_MAXLEN THEN Fault(c, roughLine)
  ELSE IF pos % 2 = 0 THEN FastRead(c, pos, le, 2)
  ELSE LET Both(c1, c2) ==
             IF Faulted(c2) THEN c2
             ELSE [c2 EXCEPT !.ret =
                     FromMem(IF FlipNeeded(le, c.pv.flags)
                             THEN c1.ret \o c2.ret ELSE c2.ret \o c1.ret, HostLE(c))]
           Second(c1) == Both(c1, IF Faulted(c1) THEN c1 ELSE aksview_read8u(c1, pos + 1))
       IN Second(aksview_read8u(c, pos))

\* 16-bit read: rough check, then the aligned branch or two 8-bit reads
\* into bb[0] and bb[1] (swapped when the orders differ).
Read16(c, pos, le, roughLine) ==
  IF Faulted(c) THEN c
  ELSE IF pos < 0 \/ pos >= AKSVIEW_MAXLEN THEN Fault(c, roughLine)
  ELSE IF pos % 2 = 0 THEN FastRead(c, pos, le, 2)
  ELSE LET Both(c1, c2) ==
             IF Faulted(c2) THEN c2
             ELSE [c2 EXCEPT !.ret =
                     FromMem(IF FlipNeeded(le, c.pv.flags)
                             THEN c2.ret \o c1.ret ELSE c1.ret \o c2.ret, HostLE(c))]
           Second(c1) == Both(c1, IF Faulted(c1) THEN c1 ELSE aksview_read8u(c1, pos + 1))
       IN Second(aksview_read8u(c, pos))

aksview_read16u(c, pos, le) == Read16(c, pos, le, 1342)

aksview_read16s(c, pos, le) == Read16(c, pos, le, 1399)

\* 16-bit write: rough check, then the aligned branch or two 8-bit writes
\* of bb[0] and bb[1], in file order, swapped when the orders differ.
Write16(c, pos, le, v, roughLine, roLine) ==
  IF Faulted(c) THEN c
  ELSE IF pos < 0 \/ pos >= AKSVIEW_MAXLEN THEN Fault(c, roughLine)
  ELSE IF pos % 2 = 0 THEN FastWrite(c, pos, le, 2, v, roLine)
  ELSE LET bb == ToMem(v, HostLE(c))
           first == IF FlipNeeded(le, c.pv.flags) THEN <<bb[2]>> ELSE <<bb[1]>>
           second == IF FlipNeeded(le, c.pv.flags) THEN <<bb[1]>> ELSE <<bb[2]>>
           Second(c1) == IF Faulted(c1) THEN c1 ELSE aksview_write8u(c1, pos + 1, second)
       IN Second(aksview_write8u(c, pos, first))

aksview_write16u(c, pos, le, v) == Write16(c, pos, le, v, 1455, 1476)

aksview_write16s(c, pos, le, v) == Write16(c, pos, le, v, 1517, 1538)

\* JoinHalves that never swaps the halves.
JoinHalvesUnswapped(c, le, first, second) ==
  FromMem(ToMem(first, HostLE(c)) \o ToMem(second, HostLE(c)), HostLE(c))

\* What memcpy(&result, bw, 2 * n) yields from the two halves read at pos
\* (first) and pos + n (second): bw[1] and bw[0] when the orders differ,
\* bw[0] and bw[1] otherwise.
JoinHalves(c, le, first, second) ==
  LET bw0 == IF FlipNeeded(le, c.pv.flags) THEN second ELSE first
      bw1 == IF FlipNeeded(le, c.pv.flags) THEN first ELSE second
  IN FromMem(ToMem(bw0, HostLE(c)) \o ToMem(bw1, HostLE(c)), HostLE(c))

\* The halves bw[0] and bw[1] of v after memcpy(bw, &v, 2 * n), in the
\* order the unaligned branch writes them: bw[1] first when the orders differ.
SplitHalves(c, le, v) ==
  LET mem == ToMem(v, HostLE(c))
      n == Len(v) \div 2
      bw0 == FromMem(SubSeq(mem, 1, n), HostLE(c))
      bw1 == FromMem(SubSeq(mem, n + 1, 2 * n), HostLE(c))
  IN IF FlipNeeded(le, c.pv.flags) THEN <<bw1, bw0>> ELSE <<bw0, bw1>>

\* 32-bit read: the unaligned branch reads the two 16-bit halves.
Read32(c, pos, le, roughLine) ==
  IF Faulted(c) THEN c
  ELSE IF pos < 0 \/ pos >= AKSVIEW_MAXLEN THEN Fault(c, roughLine)
  ELSE IF pos % 4 = 0 THEN FastRead(c, pos, le, 4)
  ELSE LET Both(c1, c2) ==
             IF Faulted(c2) THEN c2
             ELSE [c2 EXCEPT !.ret = JoinHalves(c, le, c1.ret, c2.ret)]
           Second(c1) == Both(c1, IF Faulted(c1) THEN c1 ELSE aksview_read16u(c1, pos + 2, le))
       IN Second(aksview_read16u(c, pos, le))

aksview_read32u(c, pos, le) == Read32(c, pos, le, 1581)

aksview_read32s(c, pos, le) == Read32(c, pos, le, 1643)

\* 32-bit write: the unaligned branch writes the two 16-bit halves.
Write32(c, pos, le, v, roughLine, roLine) ==
  IF Faulted(c) THEN c
  ELSE IF pos < 0 \/ pos >= AKSVIEW_MAXLEN THEN Fault(c, roughLine)
  ELSE IF pos % 4 = 0 THEN FastWrite(c, pos, le, 4, v, roLine)
  ELSE LET halves == SplitHalves(c, le, v)
           Second(c1) == IF Faulted(c1) THEN c1
                         ELSE aksview_write16u(c1, pos + 2, le, halves[2])
       IN Second(aksview_write16u(c, pos, le, halves[1]))

aksview_write32u(c, pos, le, v) == Write32(c, pos, le, v, 1704, 1725)

aksview_write32s(c, pos, le, v) == Write32(c, pos, le, v, 1771, 1792)

\* Read64 without the rough check of pos.
Read64NoRoughCheck(c, pos, le, roughLine) ==
  IF Faulted(c) THEN c
  ELSE IF pos % 8 = 0 THEN FastRead(c, pos, le, 8)
  ELSE LET Both(c1, c2) ==
             IF Faulted(c2) THEN c2
             ELSE [c2 EXCEPT !.ret = JoinHalves(c, le, c1.ret, c2.ret)]
           Second(c1) == Both(c1, IF Faulted(c1) THEN c1 ELSE aksview_read32u(c1, pos + 4, le))
       IN Second(aksview_read32u(c, pos, le))

\* 64-bit read: the unaligned branch reads the two 32-bit halves.
Read64(c, pos, le, roughLine) ==
  IF Faulted(c) THEN c
  ELSE IF pos < 0 \/ pos >= AKSVIEW_MAXLEN THEN Fault(c, roughLine)
  ELSE IF pos % 8 = 0 THEN FastRead(c, pos, le, 8)
  ELSE LET Both(c1, c2) ==
             IF Faulted(c2) THEN c2
             ELSE [c2 EXCEPT !.ret = JoinHalves(c, le, c1.ret, c2.ret)]
           Second(c1) == Both(c1, IF Faulted(c1) THEN c1 ELSE aksview_read32u(c1, pos + 4, le))
       IN Second(aksview_read32u(c, pos, le))

aksview_read64u(c, pos, le) == Read64(c, pos, le, 1839)

aksview_read64s(c, pos, le) == Read64(c, pos, le, 1909)

\* 64-bit write: the unaligned branch writes the two 32-bit halves.
Write64(c, pos, le, v, roughLine, roLine) ==
  IF Faulted(c) THEN c
  ELSE IF pos < 0 \/ pos >= AKSVIEW_MAXLEN THEN Fault(c, roughLine)
  ELSE IF pos % 8 = 0 THEN FastWrite(c, pos, le, 8, v, roLine)
  ELSE LET halves == SplitHalves(c, le, v)
           Second(c1) == IF Faulted(c1) THEN c1
                         ELSE aksview_write32u(c1, pos + 4, le, halves[2])
       IN Second(aksview_write32u(c, pos, le, halves[1]))

aksview_write64u(c, pos, le, v) == Write64(c, pos, le, v, 1978, 1999)

aksview_write64s(c, pos, le, v) == Write64(c, pos, le, v, 2053, 2074)

\* ------------------------------------------------------------ resize, hint

\* The Windows length change of aksview_setlen: SetFilePointer to the new
\* length, then SetEndOfFile, to grow and to shrink alike.
ChangeLengthWin(c, newlen) ==
  LET resized(bytes) == [i \in 0..(newlen - 1) |->
                           IF i \in DOMAIN bytes THEN bytes[i] ELSE HoleByte]
      seek == BackendCall("SetFilePointer", newlen, 0, "")
      cut == BackendCall("SetEndOfFile", 0, 0, "")
  IN IF "SetFilePointer" \in c.fails
     THEN [c EXCEPT !.rc = 0 - 1, !.calls = Append(@, seek)]
     ELSE IF "SetEndOfFile" \in c.fails
     THEN [c EXCEPT !.rc = 0 - 1, !.calls = @ \o <<seek, cut>>]
     ELSE [c EXCEPT !.rc = 0, !.calls = @ \o <<seek, cut>>,
                    !.file = resized(c.file), !.disk = resized(c.disk)]

\* ChangeLength that gives the file its new length with every byte zero.
ChangeLengthFromEmpty(c, newlen) ==
  LET resized(bytes) == [i \in 0..(newlen - 1) |-> HoleByte]
      seek == BackendCall("lseek", newlen - 1, 0, "")
      put == BackendCall("write", newlen - 1, 1, "")
      cut == BackendCall("ftruncate", newlen, 0, "")
  IN IF newlen > c.pv.flen
     THEN IF "lseek" \in c.fails
          THEN [c EXCEPT !.rc = 0 - 1, !.calls = Append(@, seek)]
          ELSE IF "write" \in c.fails
          THEN [c EXCEPT !.rc = 0 - 1, !.calls = @ \o <<seek, put>>]
          ELSE [c EXCEPT !.rc = 0, !.calls = @ \o <<seek, put>>,
                         !.file = resized(c.file), !.disk = resized(c.disk)]
     ELSE IF "ftruncate" \in c.fails
          THEN [c EXCEPT !.rc = 0 - 1, !.calls = Append(@, cut)]
          ELSE [c EXCEPT !.rc = 0, !.calls = Append(@, cut),
                         !.file = resized(c.file), !.disk = resized(c.disk)]

\* ChangeLength that seeks to the new length, one past the new last byte.
ChangeLengthSeeksToEnd(c, newlen) ==
  LET resized(bytes, n) == [i \in 0..(n - 1) |->
                              IF i \in DOMAIN bytes THEN bytes[i] ELSE HoleByte]
      seek == BackendCall("lseek", newlen, 0, "")
      put == BackendCall("write", newlen, 1, "")
      cut == BackendCall("ftruncate", newlen, 0, "")
  IN IF newlen > c.pv.flen
     THEN IF "lseek" \in c.fails
          THEN [c EXCEPT !.rc = 0 - 1, !.calls = Append(@, seek)]
          ELSE IF "write" \in c.fails
          THEN [c EXCEPT !.rc = 0 - 1, !.calls = @ \o <<seek, put>>]
          ELSE [c EXCEPT !.rc = 0, !.calls = @ \o <<seek, put>>,
                         !.file = resized(c.file, newlen + 1),
                         !.disk = resized(c.disk, newlen + 1)]
     ELSE IF "ftruncate" \in c.fails
          THEN [c EXCEPT !.rc = 0 - 1, !.calls = Append(@, cut)]
          ELSE [c EXCEPT !.rc = 0, !.calls = Append(@, cut),
                         !.file = resized(c.file, newlen),
                         !.disk = resized(c.disk, newlen)]

\* The length change of aksview_setlen.  On POSIX: to grow, lseek to the new
\* last byte and write one zero byte there; to shrink, ftruncate.  A call in
\* c.fails is refused and leaves the file as it is; the bytes between the old
\* and the new end read as HoleByte.
ChangeLength(c, newlen) ==
  LET resized(bytes) == [i \in 0..(newlen - 1) |->
                           IF i \in DOMAIN bytes THEN bytes[i] ELSE HoleByte]
      seek == BackendCall("lseek", newlen - 1, 0, "")
      put == BackendCall("write", newlen - 1, 1, "")
      cut == BackendCall("ftruncate", newlen, 0, "")
  IN IF AksWin(c) THEN ChangeLengthWin(c, newlen)
     ELSE IF newlen > c.pv.flen
     THEN IF "lseek" \in c.fails
          THEN [c EXCEPT !.rc = 0 - 1, !.calls = Append(@, seek)]
          ELSE IF "write" \in c.fails
          THEN [c EXCEPT !.rc = 0 - 1, !.calls = @ \o <<seek, put>>]
          ELSE [c EXCEPT !.rc = 0, !.calls = @ \o <<seek, put>>,
                         !.file = resized(c.file), !.disk = resized(c.disk)]
     ELSE IF "ftruncate" \in c.fails
          THEN [c EXCEPT !.rc = 0 - 1, !.calls = Append(@, cut)]
          ELSE [c EXCEPT !.rc = 0, !.calls = Append(@, cut),
                         !.file = resized(c.file), !.disk = resized(c.disk)]

\* aksview_setlen that records the new length whether or not the file changed.
aksview_setlenIgnoresStatus(c, newlen) ==
  IF newlen < 0 \/ newlen > AKSVIEW_MAXLEN THEN Fault(c, 1128)
  ELSE IF FLAG_RO \in c.pv.flags THEN Fault(c, 1131)
  ELSE IF newlen # c.pv.flen
  THEN LET Resized(c2) ==
             [computeWindow([c2 EXCEPT !.pv.flags = @ \cup {FLAG_UT},
                                       !.pv.flen = newlen])
                EXCEPT !.status = IF c2.rc # 0 THEN 0 ELSE 1]
       IN Resized(ChangeLength(unmap(c), newlen))
  ELSE [c EXCEPT !.status = 1]

\* aksview_setlen that changes the length with the window still mapped.
aksview_setlenKeepsWindow(c, newlen) ==
  IF newlen < 0 \/ newlen > AKSVIEW_MAXLEN THEN Fault(c, 1128)
  ELSE IF FLAG_RO \in c.pv.flags THEN Fault(c, 1131)
  ELSE IF newlen # c.pv.flen
  THEN LET Resized(c2) ==
             IF c2.rc # 0 THEN [c2 EXCEPT !.status = 0]
             ELSE [computeWindow([c2 EXCEPT !.pv.flags = @ \cup {FLAG_UT},
                                            !.pv.flen = newlen])
                     EXCEPT !.status = 1]
       IN Resized(ChangeLength(c, newlen))
  ELSE [c EXCEPT !.status = 1]

\* aksview_setlen without the test for an unchanged length.
aksview_setlenAlways(c, newlen) ==
  IF newlen < 0 \/ newlen > AKSVIEW_MAXLEN THEN Fault(c, 1128)
  ELSE IF FLAG_RO \in c.pv.flags THEN Fault(c, 1131)
  ELSE LET Resized(c2) ==
             IF c2.rc # 0 THEN [c2 EXCEPT !.status = 0]
             ELSE [computeWindow([c2 EXCEPT !.pv.flags = @ \cup {FLAG_UT},
                                            !.pv.flen = newlen])
                     EXCEPT !.status = 1]
       IN Resized(ChangeLength(unmap(c), newlen))

\* aksview_setlen that keeps the window length derived for the old length.
aksview_setlenStaleWindow(c, newlen) ==
  IF newlen < 0 \/ newlen > AKSVIEW_MAXLEN THEN Fault(c, 1128)
  ELSE IF FLAG_RO \in c.pv.flags THEN Fault(c, 1131)
  ELSE IF newlen # c.pv.flen
  THEN LET Resized(c2) ==
             IF c2.rc # 0 THEN [c2 EXCEPT !.status = 0]
             ELSE [c2 EXCEPT !.pv.flags = @ \cup {FLAG_UT},
                             !.pv.flen = newlen, !.status = 1]
       IN Resized(ChangeLength(unmap(c), newlen))
  ELSE [c EXCEPT !.status = 1]

\* c.status carries the value aksview_setlen returns (1 success, 0 error).
aksview_setlen(c, newlen) ==
  IF newlen < 0 \/ newlen > AKSVIEW_MAXLEN THEN Fault(c, 1128)
  ELSE IF FLAG_RO \in c.pv.flags THEN Fault(c, 1131)
  ELSE IF newlen # c.pv.flen
  THEN LET Resized(c2) ==
             IF c2.rc # 0 THEN [c2 EXCEPT !.status = 0]
             ELSE [computeWindow([c2 EXCEPT !.pv.flags = @ \cup {FLAG_UT},
                                            !.pv.flen = newlen])
                     EXCEPT !.status = 1]
       IN Resized(ChangeLength(unmap(c), newlen))
  ELSE [c EXCEPT !.status = 1]

\* aksview_sethint that keeps the mapped window whatever the new length.
aksview_sethintKeepsWindow(c, wlen) ==
  IF wlen # c.pv.hint
  THEN computeWindow([c EXCEPT !.pv.hint = wlen])
  ELSE c

\* The hint is stored and the window length derived again; when that
\* changed the length, the window is unviewed.
aksview_sethint(c, wlen) ==
  IF wlen # c.pv.hint
  THEN LET c1 == [c EXCEPT !.pv.hint = wlen]
           c2 == computeWindow(c1)
       IN IF ComputeWindowChanged(c1) THEN unview(c2) ELSE c2
  ELSE c

\* ------------------------------------------------------------------ close

\* aksview_close that reports a refused time() or utime() to the warn handler
\* and goes on with the teardown.
aksview_closeWarnsOnStamp(c, p) ==
  LET stamp == <<BackendCall("time", 0, 0, ""), BackendCall("utime", 0, 0, "")>>
      Stamped(c1) ==
        IF FLAG_UT \in c1.pv.flags
        THEN IF "time" \in c1.fails
             THEN Warn([c1 EXCEPT !.calls = Append(@, stamp[1])], 1020)
             ELSE IF "utime" \in c1.fails
             THEN Warn([c1 EXCEPT !.calls = @ \o stamp], 1034)
             ELSE [c1 EXCEPT !.calls = @ \o stamp, !.mtime = "now"]
        ELSE c1
      Released(c2) ==
        IF Faulted(c2) THEN c2
        ELSE [(IF "close" \in c2.fails THEN Warn(c2, 1062) ELSE c2)
                EXCEPT !.calls = @ \o <<BackendCall("free_path", 0, 0, ""),
                                        BackendCall("close", 0, 0, ""),
                                        BackendCall("free_pv", 0, 0, "")>>,
                       !.pv.pPathCopy = NULL, !.pv.fh = 0 - 1]
  IN IF p = NULL THEN c ELSE Released(Stamped(unmap(c)))

\* aksview_close that sets the file's time before it unmaps the window.
aksview_closeStampsFirst(c, p) ==
  LET stamp == <<BackendCall("time", 0, 0, ""), BackendCall("utime", 0, 0, "")>>
      Stamped(c1) ==
        IF FLAG_UT \in c1.pv.flags
        THEN IF "time" \in c1.fails
             THEN Fault([c1 EXCEPT !.calls = Append(@, stamp[1])], 1020)
             ELSE IF "utime" \in c1.fails
             THEN Fault([c1 EXCEPT !.calls = @ \o stamp], 1034)
             ELSE [c1 EXCEPT !.calls = @ \o stamp, !.mtime = "now"]
        ELSE c1
      Released(c2) ==
        IF Faulted(c2) THEN c2
        ELSE [(IF "close" \in c2.fails THEN Warn(c2, 1062) ELSE c2)
                EXCEPT !.calls = @ \o <<BackendCall("free_path", 0, 0, ""),
                                        BackendCall("close", 0, 0, ""),
                                        BackendCall("free_pv", 0, 0, "")>>,
                       !.pv.pPathCopy = NULL, !.pv.fh = 0 - 1]
  IN IF p = NULL THEN c ELSE Released(unmap(Stamped(c)))

\* The POSIX branch of aksview_close; p is the pointer passed (nothing is
\* done for NULL).  time() and utime() are refused when c.fails holds them;
\* close(fh) likewise.
aksview_close(c, p) ==
  LET stamp == <<BackendCall("time", 0, 0, ""), BackendCall("utime", 0, 0, "")>>
      Stamped(c1) ==
        IF FLAG_UT \in c1.pv.flags
        THEN IF "time" \in c1.fails
             THEN Fault([c1 EXCEPT !.calls = Append(@, stamp[1])], 1020)
             ELSE IF "utime" \in c1.fails
             THEN Fault([c1 EXCEPT !.calls = @ \o stamp], 1034)
             ELSE [c1 EXCEPT !.calls = @ \o stamp, !.mtime = "now"]
        ELSE c1
      Released(c2) ==
        IF Faulted(c2) THEN c2
        ELSE [(IF "close" \in c2.fails THEN Warn(c2, 1062) ELSE c2)
                EXCEPT !.calls = @ \o <<BackendCall("free_path", 0, 0, ""),
                                        BackendCall("close", 0, 0, ""),
                                        BackendCall("free_pv", 0, 0, "")>>,
                       !.pv.pPathCopy = NULL, !.pv.fh = 0 - 1]
  IN IF p = NULL THEN c ELSE Released(Stamped(unmap(c)))

\* ----------------------------------------------------------------- create

\* The four modes aksview_create recognizes.
Modes ==
  {"AKSVIEW_READONLY", "AKSVIEW_EXISTING", "AKSVIEW_REGULAR", "AKSVIEW_EXCLUSIVE"}

\* OpenFlags that leaves O_EXCL out of the exclusive mode.
OpenFlagsNoExcl(mode) ==
  CASE mode = "AKSVIEW_READONLY" -> "O_RDONLY"
    [] mode = "AKSVIEW_EXISTING" -> "O_RDWR"
    [] mode = "AKSVIEW_REGULAR" -> "O_RDWR|O_CREAT"
    [] mode = "AKSVIEW_EXCLUSIVE" -> "O_RDWR|O_CREAT"

\* The flags aksview_create passes to open() for each mode.
OpenFlags(mode) ==
  CASE mode = "AKSVIEW_READONLY" -> "O_RDONLY"
    [] mode = "AKSVIEW_EXISTING" -> "O_RDWR"
    [] mode = "AKSVIEW_REGULAR" -> "O_RDWR|O_CREAT"
    [] mode = "AKSVIEW_EXCLUSIVE" -> "O_RDWR|O_CREAT|O_EXCL"

\* The structure as aksview_create first fills it in; the model also keeps
\* it where the code has no structure (none allocated, or freed again).
NoViewer ==
  [flags |-> {}, fh |-> 0 - 1, pPathCopy |-> NULL, flen |-> 0 - 1,
   pgsize |-> 0 - 1, hint |-> AKSVIEW_DEFAULT_HINT, wlen |-> 0 - 1,
   pw |-> NULL, wfirst |-> 0 - 1, wlast |-> 0 - 1]

\* open() that also empties a file it finds (as with O_TRUNC).
openTruncating(c, m) ==
  LET call == BackendCall("open", 0, 0, m)
      creat == m \in {"O_RDWR|O_CREAT", "O_RDWR|O_CREAT|O_EXCL"}
      excl == m = "O_RDWR|O_CREAT|O_EXCL"
  IN IF "open" \in c.fails \/ (~creat /\ ~c.exists) \/ (excl /\ c.exists)
     THEN [c EXCEPT !.calls = Append(@, call), !.pv.fh = 0 - 1]
     ELSE [c EXCEPT !.calls = Append(@, call), !.pv.fh = 3, !.exists = TRUE,
                    !.file = <<>>, !.disk = <<>>]

\* open(pPath, m [, RWRWRW]): without O_CREAT the file must exist, with
\* O_EXCL it must not; O_CREAT makes an empty file where there is none.  No
\* mode passes O_TRUNC, so a file that exists keeps its bytes.  The
\* descriptor, or -1.
open(c, m) ==
  LET call == BackendCall("open", 0, 0, m)
      creat == m \in {"O_RDWR|O_CREAT", "O_RDWR|O_CREAT|O_EXCL"}
      excl == m = "O_RDWR|O_CREAT|O_EXCL"
  IN IF "open" \in c.fails \/ (~creat /\ ~c.exists) \/ (excl /\ c.exists)
     THEN [c EXCEPT !.calls = Append(@, call), !.pv.fh = 0 - 1]
     ELSE [c EXCEPT !.calls = Append(@, call), !.pv.fh = 3, !.exists = TRUE]

\* loadFileSize: fstat, then the size must lie in [0, AKSVIEW_MAXLEN];
\* c.status is its return value.
loadFileSize(c) ==
  LET size == Cardinality(DOMAIN c.file)
      Queried(c1) ==
        IF "fstat" \in c1.fails THEN [c1 EXCEPT !.status = 0]
        ELSE IF size < 0 \/ size > AKSVIEW_MAXLEN THEN [c1 EXCEPT !.status = 0]
        ELSE [c1 EXCEPT !.status = 1, !.pv.flen = size]
  IN IF c.pv.fh = 0 - 1 THEN Fault(c, 336)
     ELSE Queried([c EXCEPT !.calls = Append(@, BackendCall("fstat", 0, 0, ""))])

\* aksview_create that refuses nothing it does not recognize as a mode:
\* every other mode value is opened read-only.
aksview_createAnyMode(c, mode, isLE, pgsize) ==
  LET Cleanup(c2) ==
        LET Freed(c4) ==
              [c4 EXCEPT !.calls = Append(@, BackendCall("free_pv", 0, 0, "")),
                         !.pv = NoViewer]
            ClosedFh(c3) ==
              IF c3.pv.fh # 0 - 1
              THEN [(IF "close" \in c3.fails THEN Warn(c3, 968) ELSE c3)
                      EXCEPT !.calls = Append(@, BackendCall("close", 0, 0, "")),
                             !.pv.fh = 0 - 1]
              ELSE c3
        IN Freed(ClosedFh([c2 EXCEPT
                             !.calls = Append(@, BackendCall("free_path", 0, 0, "")),
                             !.pv.pPathCopy = NULL]))
      Windowed(c2) ==
        IF Faulted(c2) THEN c2
        ELSE IF c2.status = 0 THEN Cleanup([c2 EXCEPT !.perr = "LENQUERY"])
        ELSE computeWindow(c2)
      Opened(c1) ==
        IF c1.pv.fh = 0 - 1 THEN Cleanup([c1 EXCEPT !.status = 0, !.perr = "OPEN"])
        ELSE Windowed(loadFileSize(c1))
      filled == [NoViewer EXCEPT
                   !.flags = (IF mode = "AKSVIEW_READONLY" THEN {FLAG_RO} ELSE {})
                             \cup (IF isLE THEN {FLAG_LE} ELSE {}),
                   !.pPathCopy = "path",
                   !.pgsize = pgsize]
  IN Opened(open([c EXCEPT !.perr = "NONE", !.status = 1, !.pv = filled],
                 IF mode \in Modes THEN OpenFlags(mode) ELSE "O_RDONLY"))

\* The POSIX build of aksview_create (no path translation).  c.status is 1
\* when the viewer is returned and 0 when NULL is; c.perr is the code
\* written through perr.
aksview_create(c, mode, isLE, pgsize) ==
  LET Cleanup(c2) ==
        LET Freed(c4) ==
              [c4 EXCEPT !.calls = Append(@, BackendCall("free_pv", 0, 0, "")),
                         !.pv = NoViewer]
            ClosedFh(c3) ==
              IF c3.pv.fh # 0 - 1
              THEN [(IF "close" \in c3.fails THEN Warn(c3, 968) ELSE c3)
                      EXCEPT !.calls = Append(@, BackendCall("close", 0, 0, "")),
                             !.pv.fh = 0 - 1]
              ELSE c3
        IN Freed(ClosedFh([c2 EXCEPT
                             !.calls = Append(@, BackendCall("free_path", 0, 0, "")),
                             !.pv.pPathCopy = NULL]))
      Windowed(c2) ==
        IF Faulted(c2) THEN c2
        ELSE IF c2.status = 0 THEN Cleanup([c2 EXCEPT !.perr = "LENQUERY"])
        ELSE computeWindow(c2)
      Opened(c1) ==
        IF c1.pv.fh = 0 - 1 THEN Cleanup([c1 EXCEPT !.status = 0, !.perr = "OPEN"])
        ELSE Windowed(loadFileSize(c1))
      filled == [NoViewer EXCEPT
                   !.flags = (IF mode = "AKSVIEW_READONLY" THEN {FLAG_RO} ELSE {})
                             \cup (IF isLE THEN {FLAG_LE} ELSE {}),
                   !.pPathCopy = "path",
                   !.pgsize = pgsize]
  IN IF mode \notin Modes
     THEN [c EXCEPT !.perr = "BADMODE", !.status = 0, !.pv = NoViewer]
     ELSE Opened(open([c EXCEPT !.perr = "NONE", !.status = 1, !.pv = filled],
                      OpenFlags(mode)))

\* ------------------------------------------------------------ state machine

VARIABLES
  pv,      \* the AKSVIEW structure
  region,  \* the part of the file that pv.pw maps
  file,    \* the file's bytes as the kernel presents them (offset -> byte)
  disk,    \* the file's bytes on stable storage
  mtime,   \* "old", or "now" once close has set the last-modified time
  life,    \* "start" (no viewer yet), "failed" (aksview_create returned NULL),
           \* "open" (between calls), "done" (a call has just returned),
           \* "closed", or "faulted" (the fault handler ended the process)
  probe,   \* the typed location the client works on: [W, sgn, pos, le]
  shadow,  \* the flat byte array a client expects: its completed writes applied
  before,  \* the viewer and the file as they were when the last call began
  last,    \* the last API call and how it ended
  calls,   \* the backend calls the last API call issued, in order
  lost,    \* TRUE once a refused msync has dropped a dirty window
  stuck,   \* TRUE once a refused munmap has left a view mapped
  exists   \* the path names a file

vars == <<pv, region, file, disk, mtime, life, probe, shadow, before, last, calls, lost,
          stuck, exists>>

\* aksview_create succeeded on an existing file of length len: mode READONLY
\* when ro, EXISTING otherwise; isLE is what isLESystem found.
Created(ro, isLE, pgsize, len) ==
  [flags |-> (IF ro THEN {FLAG_RO} ELSE {}) \cup (IF isLE THEN {FLAG_LE} ELSE {}),
   fh |-> 3,
   pPathCopy |-> "path",
   flen |-> len,
   pgsize |-> pgsize,
   hint |-> AKSVIEW_DEFAULT_HINT,
   wlen |-> WindowLength(AKSVIEW_DEFAULT_HINT, pgsize, len),
   pw |-> NULL,
   wfirst |-> 0 - 1,
   wlast |-> 0 - 1]

\* Every typed location: width, signedness, offset (one before the file to
\* its length), byte order.
AllProbes ==
  {[W |-> 1, sgn |-> s, pos |-> o, le |-> TRUE] : s \in BOOLEAN, o \in Offsets}
  \cup [W : {2, 4, 8}, sgn : BOOLEAN, pos : Offsets, le : BOOLEAN]

\* The typed locations of the viewer machine: an unaligned 64-bit integer
\* across two 8-byte windows, aligned 64-bit and 32-bit integers, a 32-bit
\* integer whose halves are aligned, an aligned 16-bit integer, the last
\* byte, and a 16-bit integer that begins on the last byte of the file.
FewProbes ==
  {[W |-> 8, sgn |-> FALSE, pos |-> 7, le |-> FALSE],
   [W |-> 8, sgn |-> TRUE, pos |-> 0, le |-> TRUE],
   [W |-> 4, sgn |-> FALSE, pos |-> 8, le |-> FALSE],
   [W |-> 4, sgn |-> TRUE, pos |-> 6, le |-> TRUE],
   [W |-> 2, sgn |-> TRUE, pos |-> 10, le |-> TRUE],
   [W |-> 1, sgn |-> FALSE, pos |-> MaxLen - 1, le |-> TRUE],
   [W |-> 2, sgn |-> FALSE, pos |-> MaxLen - 1, le |-> FALSE]}

NoCall == [op |-> "none", fault |-> 0, warns |-> <<>>, oob |-> FALSE,
           ret |-> <<>>, status |-> 1, v |-> <<>>, arg |-> 0, perr |-> "NONE"]

NoBefore == [pv |-> "-", region |-> "-", file |-> "-", disk |-> "-", exists |-> "-"]

Start(ro, isLE, pgsize, len, pr) ==
  /\ pv = Created(ro, isLE, pgsize, len)
  /\ region = NoRegion
  /\ file = [i \in 0..(len - 1) |-> OrigByte(i)]
  /\ disk = file
  /\ shadow = file
  /\ before = NoBefore
  /\ mtime = "old"
  /\ life = "open"
  /\ probe = pr
  /\ last = NoCall
  /\ calls = <<>>
  /\ lost = FALSE
  /\ stuck = FALSE
  /\ exists = TRUE

\* The context an API call starts from.
Enter(fails) ==
  [pv |-> pv, region |-> region, file |-> file, disk |-> disk, mtime |-> mtime, calls |-> <<>>,
   fault |-> 0, warns |-> <<>>, oob |-> FALSE, ret |-> <<>>, status |-> 1,
   rc |-> 0, fails |-> fails, exists |-> exists, perr |-> "NONE"]

\* The state an API call leaves behind; sh is the client's expectation.
Leave(c, op, arg, v, sh) ==
  /\ life = "open"
  /\ pv' = c.pv
  /\ region' = c.region
  /\ file' = c.file
  /\ disk' = c.disk
  /\ mtime' = c.mtime
  /\ life' = IF Faulted(c) THEN "faulted" ELSE IF op = "close" THEN "closed" ELSE "done"
  /\ shadow' = sh
  /\ before' = [pv |-> pv, region |-> region, file |-> file, disk |-> disk,
                exists |-> exists]
  /\ last' = [op |-> op, fault |-> c.fault, warns |-> c.warns, oob |-> c.oob,
              ret |-> c.ret, status |-> c.status, v |-> v, arg |-> arg,
              perr |-> c.perr]
  /\ calls' = c.calls
  /\ lost' = (lost \/ \E j \in DOMAIN c.warns : c.warns[j] = 1256)
  /\ stuck' = (stuck \/ \E j \in DOMAIN c.warns : c.warns[j] = 517)
  /\ exists' = c.exists
  /\ UNCHANGED probe

\* The read function of width W and signedness sgn.
CallRead(c, W, sgn, pos, le) ==
  CASE W = 1 -> IF sgn THEN aksview_read8s(c, pos) ELSE aksview_read8u(c, pos)
    [] W = 2 -> IF sgn THEN aksview_read16s(c, pos, le) ELSE aksview_read16u(c, pos, le)
    [] W = 4 -> IF sgn THEN aksview_read32s(c, pos, le) ELSE aksview_read32u(c, pos, le)
    [] W = 8 -> IF sgn THEN aksview_read64s(c, pos, le) ELSE aksview_read64u(c, pos, le)

\* The write function of width W and signedness sgn.
CallWrite(c, W, sgn, pos, le, v) ==
  CASE W = 1 -> IF sgn THEN aksview_write8s(c, pos, v) ELSE aksview_write8u(c, pos, v)
    [] W = 2 -> IF sgn THEN aksview_write16s(c, pos, le, v) ELSE aksview_write16u(c, pos, le, v)
    [] W = 4 -> IF sgn THEN aksview_write32s(c, pos, le, v) ELSE aksview_write32u(c, pos, le, v)
    [] W = 8 -> IF sgn THEN aksview_write64s(c, pos, le, v) ELSE aksview_write64u(c, pos, le, v)

\* What the documentation says a completed write of v at pos leaves in a flat
\* byte array: little endian puts the least significant byte first.
FlatStore(bytes, pos, le, v) ==
  [i \in DOMAIN bytes |->
     IF pos <= i /\ i < pos + Len(v)
     THEN (IF le THEN v[(i - pos) + 1] ELSE v[Len(v) - (i - pos)])
     ELSE bytes[i]]

\* The value the documentation says a read at pos assembles from a flat array.
FlatLoad(bytes, pos, le, W) ==
  [k \in 1..W |-> IF le THEN bytes[pos + (k - 1)] ELSE bytes[pos + (W - k)]]

\* The flat array after a length change to n: a grown file reads HoleByte.
FlatResize(bytes, n) ==
  [i \in 0..(n - 1) |-> IF i \in DOMAIN bytes THEN bytes[i] ELSE HoleByte]

\* What the operating system may refuse during a call.
NoFails == {{}}
MapFails == {{}, {"msync"}, {"munmap"}, {"mmap"}}
LenFails == {{}, {"msync"}, {"munmap"}, {"lseek"}, {"write"}, {"ftruncate"}}
CloseFails ==
  {{}, {"msync"}, {"munmap"}, {"time"}, {"utime"}, {"close"},
   {"msync", "munmap", "close"}}

Read(F) ==
  \E fails \in F :
    Leave(CallRead(Enter(fails), probe.W, probe.sgn, probe.pos, probe.le),
          "read", probe.pos, <<>>, shadow)

Write(F) ==
  \E fails \in F, v \in StoreValues(probe.W) :
    LET Done(c) ==
          Leave(c, "write", probe.pos, v,
                IF Faulted(c) THEN shadow ELSE FlatStore(shadow, probe.pos, probe.le, v))
    IN Done(CallWrite(Enter(fails), probe.W, probe.sgn, probe.pos, probe.le, v))

\* An 8-bit read anywhere, which moves the window.
Peek(F) ==
  \E fails \in F, pos \in Offsets :
    Leave(aksview_read8u(Enter(fails), pos), "peek", pos, <<>>, shadow)

SetHint(F, H) ==
  \E fails \in F, h \in H :
    Leave(aksview_sethint(Enter(fails), h), "sethint", h, <<>>, shadow)

SetLen(F) ==
  \E fails \in F, n \in Lens \cup {0 - 1, AKSVIEW_MAXLEN + 1} :
    LET Done(c) ==
          Leave(c, "setlen", n, <<>>,
                IF Faulted(c) \/ c.status = 0 THEN shadow ELSE FlatResize(shadow, n))
    IN Done(aksview_setlen(Enter(fails), n))

Flush(F) ==
  \E fails \in F :
    Leave(aksview_flush(Enter(fails)), "flush", 0, <<>>, shadow)

\* aksview_close on the viewer, or on a NULL pointer ("closenull").
Close(F) ==
  \E fails \in F, p \in {NULL, "pv"} :
    Leave(aksview_close(Enter(fails), p),
          IF p = NULL THEN "closenull" ELSE "close", 0, <<>>, shadow)

\* The call has returned and the client goes on to its next call.
Return ==
  /\ life = "done"
  /\ life' = "open"
  /\ last' = NoCall
  /\ calls' = <<>>
  /\ before' = NoBefore
  /\ UNCHANGED <<pv, region, file, disk, mtime, probe, shadow, lost, stuck, exists>>

\* The viewer machine: every operation, the operating system free to refuse
\* a call, on the typed locations of FewProbes.
Init ==
  \E ro \in BOOLEAN, isLE \in BOOLEAN, pgsize \in PageSizes, len \in Lens,
     pr \in FewProbes :
    Start(ro, isLE, pgsize, len, pr)

Next ==
  \/ Read(MapFails)
  \/ Write(MapFails)
  \/ Peek(MapFails)
  \/ SetHint(MapFails, Hints)
  \/ SetLen(LenFails)
  \/ Flush(MapFails)
  \/ Close(CloseFails)
  \/ Return

Spec == Init /\ [][Next]_vars

\* The typed access layer: every typed location, on a writable or read-only
\* viewer whose window the client moves and resizes; the operating system
\* refuses nothing.
InitAccess ==
  \E ro \in BOOLEAN, isLE \in BOOLEAN, pgsize \in PageSizes, len \in Lens,
     pr \in AllProbes :
    Start(ro, isLE, pgsize, len, pr)

NextAccess ==
  \/ Read(NoFails)
  \/ Write(NoFails)
  \/ Peek(NoFails)
  \/ SetHint(NoFails, {8, 12, AKSVIEW_DEFAULT_HINT})
  \/ Flush(NoFails)
  \/ Return

SpecAccess == InitAccess /\ [][NextAccess]_vars

\* The read-only viewer: every typed location and every operation on a
\* viewer opened READONLY, the operating system free to refuse a call.
InitReadOnly ==
  \E isLE \in BOOLEAN, pgsize \in PageSizes, len \in Lens, pr \in AllProbes :
    Start(TRUE, isLE, pgsize, len, pr)

SpecReadOnly == InitReadOnly /\ [][Next]_vars

\* The window derivation on its own: a viewer created on a file of any
\* length of WindowLens under any page size of WindowPageSizes (aksview_create
\* derives the window of the default hint), then given the hints of
\* WindowHints one after another.  Nothing is ever mapped, so the bytes of the
\* file play no part and are left out.
InitWindow ==
  \E pgsize \in WindowPageSizes, len \in WindowLens :
    /\ pv = Created(FALSE, TRUE, pgsize, len)
    /\ region = NoRegion
    /\ file = <<>>
    /\ disk = <<>>
    /\ shadow = <<>>
    /\ before = NoBefore
    /\ mtime = "old"
    /\ life = "open"
    /\ probe = [W |-> 1, sgn |-> FALSE, pos |-> 0, le |-> TRUE]
    /\ last = NoCall
    /\ calls = <<>>
    /\ lost = FALSE
    /\ stuck = FALSE
    /\ exists = TRUE

NextWindow ==
  \/ SetHint(NoFails, WindowHints)
  \/ Return

SpecWindow == InitWindow /\ [][NextWindow]_vars

\* The backend calls aksview_create may be refused: open, fstat, and the
\* close of the cleanup after a refused fstat.
CreateFails == {{}, {"open"}, {"fstat"}, {"fstat", "close"}}

\* aksview_create with any mode value, on either host byte order.  A viewer
\* that is returned is then used like any other; NULL ends the run.
Create(F) ==
  \E fails \in F, mode \in Modes \cup {"other"}, isLE \in BOOLEAN, pgsize \in PageSizes :
    LET Done(c) ==
          /\ life = "start"
          /\ pv' = c.pv
          /\ region' = c.region
          /\ file' = c.file
          /\ disk' = c.disk
          /\ mtime' = c.mtime
          /\ life' = IF Faulted(c) THEN "faulted"
                     ELSE IF c.status = 0 THEN "failed" ELSE "done"
          /\ shadow' = c.file
          /\ before' = [pv |-> pv, region |-> region, file |-> file, disk |-> disk,
                        exists |-> exists]
          /\ last' = [op |-> "create", fault |-> c.fault, warns |-> c.warns,
                      oob |-> c.oob, ret |-> c.ret, status |-> c.status,
                      v |-> <<>>, arg |-> mode, perr |-> c.perr,
                      fails |-> fails]
          /\ calls' = c.calls
          /\ exists' = c.exists
          /\ UNCHANGED <<probe, lost, stuck>>
    IN Done(aksview_create(Enter(fails), mode, isLE, pgsize))

\* Creation: the path names no file, or a file of a length of Lens; then
\* aksview_create, and on the viewer it returns reads, writes, set_length,
\* flush and close with nothing refused.
InitCreate ==
  \E ex \in BOOLEAN, len \in Lens :
    /\ (ex \/ len = 0)
    /\ pv = NoViewer
    /\ region = NoRegion
    /\ file = [i \in 0..(len - 1) |-> OrigByte(i)]
    /\ disk = file
    /\ shadow = file
    /\ before = NoBefore
    /\ mtime = "old"
    /\ life = "start"
    /\ probe = [W |-> 2, sgn |-> FALSE, pos |-> 10, le |-> FALSE]
    /\ last = NoCall
    /\ calls = <<>>
    /\ lost = FALSE
    /\ stuck = FALSE
    /\ exists = ex

NextCreate ==
  \/ Create(CreateFails)
  \/ Read(NoFails)
  \/ Write(NoFails)
  \/ SetLen(NoFails)
  \/ Flush(NoFails)
  \/ Close(NoFails)
  \/ Return

SpecCreate == InitCreate /\ [][NextCreate]_vars

\* The client's loop over the whole file in ascending order, one 8-bit
\* access per byte: aksview_write8u(pv, i, i mod 256) or aksview_read8u(pv, i)
\* for i from 0 to the file length; the loop ends at a fault.
RECURSIVE ScanBytes(_, _, _)
ScanBytes(c, i, write) ==
  IF Faulted(c) \/ i >= c.pv.flen THEN c
  ELSE ScanBytes(IF write THEN aksview_write8u(c, i, <<i % 256>>)
                 ELSE aksview_read8u(c, i),
                 i + 1, write)

\* The scan, begun with no window mapped on a file that is not empty.
Scan ==
  \E write \in BOOLEAN :
    LET Done(c) ==
          Leave(c, "scan", IF write THEN 1 ELSE 0, <<>>,
                IF Faulted(c) \/ ~write THEN shadow
                ELSE [i \in DOMAIN shadow |-> i % 256])
    IN /\ pv.pw = NULL /\ pv.flen > 0
       /\ Done(ScanBytes(Enter({}), 0, write))

\* Sequential scans: a writable or read-only viewer on a file of a length of
\* ScanLens; the client sets hints and lengths and scans the file, reading or
\* writing, whenever no window is mapped; nothing is refused.
InitScan ==
  \E ro \in BOOLEAN, isLE \in BOOLEAN, pgsize \in PageSizes, len \in ScanLens :
    Start(ro, isLE, pgsize, len, [W |-> 1, sgn |-> FALSE, pos |-> 0, le |-> TRUE])

NextScan ==
  \/ Scan
  \/ SetHint(NoFails, ScanHints)
  \/ SetLen(NoFails)
  \/ Return

SpecScan == InitScan /\ [][NextScan]_vars

\* The longest file: a viewer on a file of AKSVIEW_MAXLEN bytes, of which the
\* first and the last sixteen are modelled, with a typed read and write at
\* an offset of EdgeOffsets, set_hint, set_length and flush; nothing is
\* refused.
InitOffsets ==
  \E ro \in BOOLEAN, isLE \in BOOLEAN, pgsize \in PageSizes, pr \in EdgeProbes :
    /\ pv = Created(ro, isLE, pgsize, AKSVIEW_MAXLEN)
    /\ region = NoRegion
    /\ file = [i \in (0 .. 15) \cup ((AKSVIEW_MAXLEN - 16) .. (AKSVIEW_MAXLEN - 1))
                 |-> OrigByte(i % 32)]
    /\ disk = file
    /\ shadow = file
    /\ before = NoBefore
    /\ mtime = "old"
    /\ life = "open"
    /\ probe = pr
    /\ last = NoCall
    /\ calls = <<>>
    /\ lost = FALSE
    /\ stuck = FALSE
    /\ exists = TRUE

NextOffsets ==
  \/ Read(NoFails)
  \/ Write(NoFails)
  \/ SetHint(NoFails, {8, AKSVIEW_DEFAULT_HINT, ONE_GIGABYTE})
  \/ SetLen(NoFails)
  \/ Flush(NoFails)
  \/ Return

SpecOffsets == InitOffsets /\ [][NextOffsets]_vars

\* The Windows build: aksview_create leaves fh_map NULL (line 789).
CreatedWin(ro, isLE, pgsize, len) ==
  [fh_map |-> NULL] @@ Created(ro, isLE, pgsize, len)

\* The file-mapping object of the Windows build: a viewer, read-only or
\* writable, on a file of a length of Lens, with 8-bit reads anywhere, a
\* typed read and write, set_hint, set_length and close; nothing is refused.
InitMapping ==
  \E ro \in BOOLEAN, isLE \in BOOLEAN, pgsize \in PageSizes, len \in Lens :
    /\ pv = CreatedWin(ro, isLE, pgsize, len)
    /\ region = NoRegion
    /\ file = [i \in 0..(len - 1) |-> OrigByte(i)]
    /\ disk = file
    /\ shadow = file
    /\ before = NoBefore
    /\ mtime = "old"
    /\ life = "open"
    /\ probe = [W |-> 2, sgn |-> FALSE, pos |-> 10, le |-> FALSE]
    /\ last = NoCall
    /\ calls = <<>>
    /\ lost = FALSE
    /\ stuck = FALSE
    /\ exists = TRUE

NextMapping ==
  \/ Peek(NoFails)
  \/ Read(NoFails)
  \/ Write(NoFails)
  \/ SetHint(NoFails, {8, AKSVIEW_DEFAULT_HINT})
  \/ SetLen(NoFails)
  \/ Close(NoFails)
  \/ Return

SpecMapping == InitMapping /\ [][NextMapping]_vars

\* ------------------------------------------------------------------ claims

\* The last call was a typed write at the probe that returned.
WriteDone == life = "done" /\ last.op = "write"

\* The last call was a typed read at the probe that returned.
ReadDone == life = "done" /\ last.op = "read"

\* The probe's bytes do not all lie in one window of the viewer as it was
\* when the last call began.
Straddles ==
  /\ before.pv.wlen > 0
  /\ probe.pos \div before.pv.wlen # (probe.pos + probe.W - 1) \div before.pv.wlen

\* C1: on a writable viewer, for every width, signedness, byte order and
\* in-range offset, a write that has returned followed at once by the read
\* of the same width, signedness, byte order and offset returns the value
\* that was written.
C1_RoundTrip ==
  WriteDone =>
    LET Returns(r) == ~Faulted(r) /\ r.ret = last.v
    IN Returns(CallRead(Enter({}), probe.W, probe.sgn, probe.pos, probe.le))

\* A signed big-endian 64-bit integer at an odd offset, across two windows,
\* has been written.
C1_Witness ==
  /\ WriteDone
  /\ probe.W = 8 /\ probe.sgn /\ ~probe.le /\ probe.pos % 2 = 1
  /\ Straddles

\* C2: after a write of v at O has returned, the file holds v's bytes at
\* O..O+W-1, least significant first when little endian was requested and
\* most significant first otherwise, whatever the alignment of O and the
\* byte order of the host; every other byte of the file is as it was.
C2_ByteLayout ==
  WriteDone => file = FlatStore(before.file, probe.pos, probe.le, last.v)

\* A little-endian 32-bit integer has been written at an offset that is not
\* a multiple of two, on a big-endian host.
C2_Witness ==
  /\ WriteDone
  /\ FLAG_LE \notin pv.flags
  /\ probe.W = 4 /\ probe.le /\ probe.pos % 2 = 1
  /\ file # before.file

\* C3: every read that returns, at the probe or of a single byte anywhere,
\* yields the bytes a flat array of the file's length would hold there: the
\* original bytes overlaid by the writes that have returned, however the
\* windows were remapped in between.
C3_WindowInvariance ==
  /\ ReadDone => last.ret = FlatLoad(shadow, probe.pos, probe.le, probe.W)
  /\ (life = "done" /\ last.op = "peek") => last.ret = <<shadow[last.arg]>>
  /\ life \in {"open", "done"} => DOMAIN shadow = 0 .. (pv.flen - 1)

\* A read across two windows mapped a window again and returned the value
\* written before.
C3_Witness ==
  /\ ReadDone
  /\ Straddles
  /\ \E k \in DOMAIN calls : calls[k].f = "mmap"
  /\ last.ret \in StoreValues(probe.W)

\* The last call was a flush or a close that returned.
FlushDone == life \in {"done", "closed"} /\ last.op \in {"flush", "close"}

\* C4: after a flush or a close has returned, no backend flush having been
\* refused, stable storage holds at every offset the byte last written
\* through the viewer, also for windows unmapped before the call.
C4_Durability ==
  (FlushDone /\ ~lost) => disk = shadow

\* A flush synced the mapped window while a written byte lies outside it, in
\* a window that had been unmapped earlier.
C4_Witness ==
  /\ FlushDone /\ ~lost
  /\ last.op = "flush"
  /\ \E k \in DOMAIN calls : calls[k].f = "msync"
  /\ \E i \in DOMAIN shadow :
       /\ i < pv.wfirst \/ i > pv.wlast
       /\ \E v \in StoreValues(probe.W), k \in 1..probe.W : shadow[i] = v[k]

\* The last call was a typed access at the probe.
ProbeCall == last.op \in {"read", "write"}

\* The probe's bytes are not all inside the file as it was when the call began.
OutOfRange == probe.pos < 0 \/ probe.pos + probe.W > before.pv.flen

\* C5: a typed read or write whose bytes are not all inside the file ends in
\* the fault handler, whatever its alignment; on an empty file every read
\* and write does, and no window is ever mapped.
C5_OutOfRangeFaults ==
  /\ (ProbeCall /\ OutOfRange) => (life = "faulted" /\ last.fault # 0)
  /\ (last.op = "peek" /\ (last.arg < 0 \/ last.arg >= before.pv.flen))
       => (life = "faulted" /\ last.fault # 0)
  /\ pv.flen = 0 =>
       /\ pv.pw = NULL /\ region = NoRegion
       /\ \A k \in DOMAIN calls : calls[k].f # "mmap"
       /\ last.op \in {"read", "write", "peek"} => life = "faulted"

\* An aligned 64-bit read that begins inside the file and ends beyond it
\* has faulted.
C5_Witness ==
  /\ last.op = "read" /\ life = "faulted"
  /\ probe.W = 8 /\ probe.pos % 8 = 0
  /\ probe.pos < before.pv.flen /\ probe.pos + 8 > before.pv.flen

\* C6: on a file that is not empty, with the backend accepting every map
\* request, a read whose bytes are all inside the file returns, and so does
\* a write on a writable viewer, for every width, offset and hint; no byte
\* outside the mapped region is touched.
C6_InRangeSucceeds ==
  /\ (last.op = "read" /\ ~OutOfRange) => (life = "done" /\ ~last.oob)
  /\ (last.op = "write" /\ ~OutOfRange /\ FLAG_RO \notin before.pv.flags)
       => (life = "done" /\ ~last.oob)

\* A 64-bit read at window size - 1, the last in-range offset of the file,
\* has returned.
C6_Witness ==
  /\ ReadDone
  /\ probe.W = 8
  /\ before.pv.wlen = 8
  /\ probe.pos = before.pv.wlen - 1
  /\ probe.pos >= before.pv.flen - 9

\* C7: a typed write whose bytes are not all inside the file faults before
\* any byte of the file is modified and before the dirty or the
\* update-timestamp flag is set.
C7_NoPartialWrite ==
  (last.op = "write" /\ life = "faulted" /\ OutOfRange)
    => (file = before.file /\ pv.flags = before.pv.flags)

\* C8: on a viewer opened READONLY every typed write and every set-length
\* call ends in the fault handler and leaves every byte of the file, in the
\* kernel's view and on stable storage, as it was.
C8_ReadOnlyRejects ==
  (last.op \in {"write", "setlen"} /\ FLAG_RO \in before.pv.flags)
    => (life = "faulted" /\ last.fault # 0 /\ file = before.file /\ disk = before.disk)

\* An unaligned in-range 32-bit write on a read-only viewer mapped a window
\* and then faulted at the read-only check of the 8-bit write.
C8_Witness ==
  /\ last.op = "write" /\ life = "faulted"
  /\ FLAG_RO \in before.pv.flags
  /\ probe.W = 4 /\ probe.pos % 2 = 1 /\ ~OutOfRange
  /\ last.fault = 1302
  /\ \E k \in DOMAIN calls : calls[k].f = "mmap"

\* The backend calls that change the file or its timestamp.
MutatingCalls == {"msync", "time", "utime", "lseek", "write", "ftruncate"}

C10_FastPathInWindow ==
  /\ pv.pw = MAPPED =>
       /\ region = [off |-> pv.wfirst, len |-> (pv.wlast - pv.wfirst) + 1]
       /\ \A W \in Widths, O \in 0 .. MaxLen :
            (O % W = 0 /\ pv.wfirst <= O + (W - 1) /\ O + (W - 1) <= pv.wlast)
              => pv.wfirst <= O
  /\ ~last.oob

\* An aligned 32-bit access to the last integer of a file whose single
\* window is as long as the file, and no multiple of 8, has returned.
C10_Witness ==
  /\ life = "done" /\ ProbeCall
  /\ pv.pw = MAPPED
  /\ pv.wlen % 8 # 0 /\ pv.wlen = pv.flen
  /\ probe.W = 4 /\ probe.pos % 4 = 0 /\ probe.pos + 4 = pv.flen

\* The viewer exists and its last call, if any, has not ended in fault().
Alive == life \in {"open", "done"}

\* C11 as stated: for every hint, every page size that is at least 8 and a
\* multiple of 8, and every file length, a positive window size is a multiple
\* of the page size.
C11_PageMultiple ==
  (Alive /\ pv.wlen > 0) => pv.wlen % pv.pgsize = 0

\* C11, amended: a positive window size is a multiple of the page size or is
\* the file length (the derivation clamps to the file length after rounding).
C11_PageMultipleOrWholeFile ==
  (Alive /\ pv.wlen > 0) => (pv.wlen % pv.pgsize = 0 \/ pv.wlen = pv.flen)

\* set_hint gave a hint that is no page multiple and the window was rounded
\* up to the next multiple, below the file length.
C11_Witness ==
  /\ life = "done" /\ last.op = "sethint"
  /\ pv.hint > pv.pgsize /\ pv.hint % pv.pgsize # 0
  /\ pv.wlen > pv.hint /\ pv.wlen < pv.flen /\ pv.wlen % pv.pgsize = 0

\* C12: in every reachable state of an open viewer 0 <= window_size <=
\* file_length, and window_size is 0 exactly when file_length is 0; every
\* window selection that got as far as its mmap request, and so divided by
\* window_size, ran with window_size positive.
C12_WindowBounds ==
  /\ Alive => /\ 0 <= pv.wlen /\ pv.wlen <= pv.flen
              /\ (pv.wlen = 0) <=> (pv.flen = 0)
  /\ \A j \in DOMAIN calls : calls[j].f = "mmap" => pv.wlen > 0

\* set_length has grown an empty file, whose window size was 0.
C12_Witness ==
  /\ life = "done" /\ last.op = "setlen" /\ last.status = 1
  /\ before.pv.flen = 0 /\ before.pv.wlen = 0
  /\ pv.flen > 0 /\ pv.wlen > 0

\* One gigabyte rounded up to a multiple of the page size.
CeilingFor(pgsize) ==
  IF ONE_GIGABYTE % pgsize = 0 THEN ONE_GIGABYTE
  ELSE ((ONE_GIGABYTE \div pgsize) + 1) * pgsize

\* C13 as stated: the window size never exceeds one gigabyte, for any hint,
\* any valid page size and any file length, and a hint above one gigabyte
\* gives a window size of min(one gigabyte, file length).
C13_CeilingOneGigabyte ==
  Alive => /\ pv.wlen <= ONE_GIGABYTE
           /\ pv.hint > ONE_GIGABYTE =>
                pv.wlen = (IF pv.flen < ONE_GIGABYTE THEN pv.flen ELSE ONE_GIGABYTE)

\* C13, amended: the window size never exceeds one gigabyte rounded up to a
\* multiple of the page size, and a hint above one gigabyte gives a window
\* size of min(that ceiling, file length).
C13_CeilingRoundedToPage ==
  Alive => /\ pv.wlen <= CeilingFor(pv.pgsize)
           /\ pv.hint > ONE_GIGABYTE =>
                pv.wlen = (IF pv.flen < CeilingFor(pv.pgsize)
                           THEN pv.flen ELSE CeilingFor(pv.pgsize))

\* set_hint gave a hint above one gigabyte on a file longer than the ceiling
\* and the window size is the ceiling.
C13_Witness ==
  /\ life = "done" /\ last.op = "sethint"
  /\ pv.hint > ONE_GIGABYTE /\ before.pv.hint <= ONE_GIGABYTE
  /\ pv.flen > CeilingFor(pv.pgsize)
  /\ pv.wlen = CeilingFor(pv.pgsize)

\* C14: for every hint, valid page size and file length the actual window
\* size equals min(roundUpToMultipleOf(page_size, max(hint, page_size)),
\* file_length), the derivation documented for aksview_sethint.
C14_DocumentedWindowSize ==
  Alive => pv.wlen = DocWindowSize(pv.hint, pv.pgsize, pv.flen)

\* The call just made left the viewer, its mapping, the file and stable
\* storage as they were and reached no backend function.
NothingDone ==
  /\ pv = before.pv /\ region = before.region
  /\ file = before.file /\ disk = before.disk
  /\ calls = <<>>

\* C15: set_length(L) when the length is L and set_hint(H) when the hint is H
\* leave the whole viewer state unchanged: the window stays mapped with the
\* same bounds, the dirty and timestamp-dirty flags keep their values, and no
\* backend call is made; on a writable viewer set_length(L) reports success.
C15_NoOpCalls ==
  /\ (last.op = "setlen" /\ last.arg = before.pv.flen) =>
       /\ NothingDone
       /\ FLAG_RO \notin before.pv.flags => (life = "done" /\ last.status = 1)
  /\ (last.op = "sethint" /\ last.arg = before.pv.hint) =>
       (NothingDone /\ life = "done")

\* set_length with the current length on a viewer whose window is mapped and
\* dirty.
C15_Witness ==
  /\ life = "done" /\ last.op = "setlen" /\ last.arg = before.pv.flen
  /\ pv.pw = MAPPED /\ FLAG_DT \in pv.flags /\ FLAG_UT \in pv.flags

\* The backend functions the call just made reached, in order.
CallNames == [j \in DOMAIN calls |-> calls[j].f]

\* C16: set_hint(H) with H different from the current hint stores H and
\* derives the window size again; a mapped window is unmapped (flushed first
\* when dirty) exactly when the derived size differs from the previous one,
\* and when it is equal the window bounds and the dirty flag are unchanged.
C16_SetHint ==
  (last.op = "sethint" /\ last.arg # before.pv.hint) =>
    /\ life = "done"
    /\ pv.hint = last.arg
    /\ pv.wlen = WindowLength(last.arg, before.pv.pgsize, before.pv.flen)
    /\ file = before.file
    /\ IF pv.wlen # before.pv.wlen
       THEN /\ pv.pw = NULL /\ pv.wfirst = 0 - 1 /\ pv.wlast = 0 - 1
            /\ CallNames =
                 (IF before.pv.pw # MAPPED THEN <<>>
                  ELSE IF FLAG_DT \in before.pv.flags THEN <<"msync", "munmap">>
                  ELSE <<"munmap">>)
            /\ FLAG_DT \notin pv.flags
       ELSE /\ pv = [before.pv EXCEPT !.hint = last.arg, !.wlen = pv.wlen]
            /\ region = before.region
            /\ calls = <<>>

\* set_hint changed the window size while a dirty window was mapped.
C16_Witness ==
  /\ life = "done" /\ last.op = "sethint" /\ last.arg # before.pv.hint
  /\ before.pv.pw = MAPPED /\ FLAG_DT \in before.pv.flags
  /\ pv.wlen # before.pv.wlen /\ pv.pw = NULL

\* The backend calls that unmap the window the viewer had before the call.
UnmapCalls ==
  IF before.pv.pw # MAPPED THEN <<>>
  ELSE IF FLAG_DT \in before.pv.flags THEN <<"msync", "munmap">>
  ELSE <<"munmap">>

\* The backend calls that take the file from its length before to n.
ResizeCalls(n) ==
  IF n > before.pv.flen THEN <<"lseek", "write">> ELSE <<"ftruncate">>

\* C17: after set_length(N) returns success with N different from the
\* previous length, get_length is N, the window size is derived again from
\* (hint, page_size, N), the timestamp-dirty flag is set, the window-dirty
\* flag is clear and no window is mapped; the previous window was flushed if
\* dirty and unmapped, also when the window size does not change.
C17_SetLength ==
  (last.op = "setlen" /\ life = "done" /\ last.status = 1
     /\ last.arg # before.pv.flen) =>
    /\ pv.flen = last.arg
    /\ DOMAIN file = 0..(last.arg - 1)
    /\ pv.wlen = WindowLength(before.pv.hint, before.pv.pgsize, last.arg)
    /\ FLAG_UT \in pv.flags /\ FLAG_DT \notin pv.flags
    /\ pv.pw = NULL /\ pv.wfirst = 0 - 1 /\ pv.wlast = 0 - 1
    /\ CallNames = UnmapCalls \o ResizeCalls(last.arg)

\* set_length changed the length under a dirty window and the window size
\* stayed the same.
C17_Witness ==
  /\ life = "done" /\ last.op = "setlen" /\ last.status = 1
  /\ last.arg # before.pv.flen
  /\ before.pv.pw = MAPPED /\ FLAG_DT \in before.pv.flags
  /\ pv.wlen = before.pv.wlen

\* C18: get_length changes only through a set_length that returns success;
\* reads, writes, flush, set_hint and remaps leave it unchanged, and a
\* set_length that fails leaves get_length, the window size and the
\* timestamp-dirty flag at their previous values.
C18_LengthChangesOnlyBySetLength ==
  /\ (last.op # "none" /\ pv.flen # before.pv.flen) =>
       (last.op = "setlen" /\ life = "done" /\ last.status = 1)
  /\ (last.op = "setlen" /\ last.status = 0) =>
       /\ life = "done"
       /\ pv.flen = before.pv.flen
       /\ pv.wlen = before.pv.wlen
       /\ (FLAG_UT \in pv.flags) <=> (FLAG_UT \in before.pv.flags)

\* set_length was refused by the backend on a viewer that had a window
\* mapped and no timestamp update pending.
C18_Witness ==
  /\ life = "done" /\ last.op = "setlen" /\ last.status = 0
  /\ last.arg # pv.flen
  /\ before.pv.pw = MAPPED /\ FLAG_UT \notin pv.flags

\* C19: in every reachable state of an open viewer the cached file length
\* equals the actual length of the file and lies in [0, AKSVIEW_MAXLEN], also
\* right after a set_length that failed.
C19_LengthMatchesFile ==
  Alive => /\ DOMAIN file = 0..(pv.flen - 1)
           /\ DOMAIN disk = DOMAIN file
           /\ 0 <= pv.flen /\ pv.flen <= AKSVIEW_MAXLEN

\* A set_length that was to shrink the file has failed.
C19_Witness ==
  /\ life = "done" /\ last.op = "setlen" /\ last.status = 0
  /\ 0 <= last.arg /\ last.arg < pv.flen
  /\ "ftruncate" \in {calls[j].f : j \in DOMAIN calls}

\* What aksview_read8u at offset i would do in the present state.
ReadNow(i) == aksview_read8u(Enter({}), i)

\* C20: a successful set_length from L to N preserves every byte below
\* min(L, N), the bytes written through the viewer and not yet flushed
\* included (they are what the client expects, what the file held before the
\* call and, no msync having been refused, what stable storage now holds);
\* the bytes of [L, N) after growth have no defined content, and reading them
\* does not fault.
C20_SetLengthPreservesBytes ==
  (last.op = "setlen" /\ life = "done" /\ last.status = 1
     /\ last.arg # before.pv.flen) =>
    \A i \in 0..(pv.flen - 1) :
      /\ ~Faulted(ReadNow(i)) /\ ~ReadNow(i).oob
      /\ i < before.pv.flen =>
           /\ ReadNow(i).ret = <<before.file[i]>>
           /\ before.file[i] = shadow[i]
           /\ ~lost => disk[i] = before.file[i]

\* set_length has grown a file whose mapped window held a written byte that
\* had not been flushed.
C20_Witness ==
  /\ life = "done" /\ last.op = "setlen" /\ last.status = 1
  /\ last.arg > before.pv.flen
  /\ FLAG_DT \in before.pv.flags
  /\ \E i \in DOMAIN before.file :
       before.file[i] # OrigByte(i) /\ before.disk[i] = OrigByte(i)

\* aksview_close on the viewer has returned.
CloseDone == life = "closed" /\ last.op = "close"

\* The backend calls that set the file's time when the viewer the call began
\* with had its timestamp flag set.
StampCalls ==
  IF FLAG_UT \in before.pv.flags THEN <<"time", "utime">> ELSE <<>>

\* C21 as stated: close on a non-null viewer flushes if dirty, unmaps if
\* mapped, updates the last-modified time if timestamp-dirty, closes the file
\* handle and then releases the path copy, in this order; close(null) does
\* nothing.
C21_CloseOrder ==
  /\ CloseDone =>
       CallNames = UnmapCalls \o StampCalls \o <<"close", "free_path", "free_pv">>
  /\ last.op = "closenull" => (NothingDone /\ life = "done")

\* C21, amended: the same steps with the path copy released before the file
\* handle is closed.
C21_CloseOrderPathFirst ==
  /\ CloseDone =>
       CallNames = UnmapCalls \o StampCalls \o <<"free_path", "close", "free_pv">>
  /\ last.op = "closenull" => (NothingDone /\ life = "done")

\* close has torn down a viewer with a dirty window and a pending timestamp.
C21_Witness ==
  /\ CloseDone
  /\ CallNames = <<"msync", "munmap", "time", "utime", "free_path", "close", "free_pv">>

\* The last call was a set_length that returned success with a new length.
SetLenChanged ==
  last.op = "setlen" /\ last.status = 1 /\ last.arg # before.pv.flen

\* C22: the timestamp flag is set by every completed write and every
\* successful length change and is cleared by no operation (not by flush, not
\* by a remap): after a call it is set exactly when it was set before or the
\* call was such a write or length change.  close sets the file's
\* last-modified time exactly when the flag is set, and nothing else sets it.
C22_TimestampDirty ==
  /\ life = "done" =>
       ((FLAG_UT \in pv.flags) <=>
          (FLAG_UT \in before.pv.flags \/ last.op = "write" \/ SetLenChanged))
  /\ CloseDone =>
       /\ (mtime = "now") <=> (FLAG_UT \in before.pv.flags)
       /\ ("utime" \in {calls[j].f : j \in DOMAIN calls}) <=> (FLAG_UT \in before.pv.flags)
  /\ mtime = "now" => CloseDone

\* close set the file's time for a viewer whose window had been written,
\* flushed and left mapped.
C22_Witness ==
  /\ CloseDone /\ mtime = "now"
  /\ before.pv.pw = MAPPED
  /\ FLAG_UT \in before.pv.flags /\ FLAG_DT \notin before.pv.flags

\* The lines of the warn() calls of the last call.
WarnLines == {last.warns[j] : j \in DOMAIN last.warns}

\* C23: during teardown a refused flush, unmap or file-handle close goes to
\* the warn handler, never to the fault handler, and the steps that remain
\* are still carried out: the unmap after a refused flush, the timestamp
\* update, the release of the path copy, the close of the handle and the
\* release of the viewer.  (Only time() and utime() can end close in fault().)
C23_TeardownWarns ==
  last.op = "close" =>
    /\ last.fault \in {0, 1020, 1034}
    /\ WarnLines \subseteq {1256, 517, 1062}
    /\ (before.pv.pw = MAPPED /\ region # NoRegion) => 517 \in WarnLines
    /\ (FLAG_DT \in before.pv.flags
          /\ \E i \in before.pv.wfirst .. before.pv.wlast : disk[i] # file[i])
         => 1256 \in WarnLines
    /\ before.pv.pw = MAPPED => "munmap" \in {calls[j].f : j \in DOMAIN calls}
    /\ FLAG_UT \in before.pv.flags => "time" \in {calls[j].f : j \in DOMAIN calls}
    /\ last.fault = 0 =>
         /\ life = "closed"
         /\ Len(calls) >= 3
         /\ SubSeq(CallNames, Len(calls) - 2, Len(calls)) = <<"free_path", "close", "free_pv">>
         /\ pv.pw = NULL /\ pv.pPathCopy = NULL /\ pv.fh = 0 - 1

\* close went through with the flush, the unmap and the close of the handle
\* all refused.
C23_Witness ==
  /\ CloseDone
  /\ WarnLines = {1256, 517, 1062}
  /\ FLAG_UT \in before.pv.flags /\ mtime = "now"

\* aksview_create has returned a viewer.
CreateDone == life = "done" /\ last.op = "create"

\* aksview_create has returned NULL.
CreateFailed == life = "failed" /\ last.op = "create"

\* C24: creating a viewer in REGULAR mode on a path that exists with a length
\* above 0 succeeds and resets the file: its content is discarded and
\* get_length is 0 right after create.
C24_RegularResets ==
  (CreateDone /\ last.arg = "AKSVIEW_REGULAR" /\ before.exists
     /\ DOMAIN before.file # {}) =>
    (pv.flen = 0 /\ DOMAIN file = {})

C26_ModesAndExistence ==
  /\ last.op = "create" =>
       /\ (last.arg \in {"AKSVIEW_READONLY", "AKSVIEW_EXISTING"} /\ ~before.exists) =>
            (CreateFailed /\ last.perr = "OPEN" /\ ~exists)
       /\ (last.arg = "AKSVIEW_EXCLUSIVE" /\ before.exists) =>
            /\ CreateFailed /\ last.perr = "OPEN"
            /\ exists /\ file = before.file /\ disk = before.disk
       /\ (last.fails = {} /\ last.arg \in {"AKSVIEW_READONLY", "AKSVIEW_EXISTING"}
             /\ before.exists) => CreateDone
       /\ (last.fails = {} /\ last.arg = "AKSVIEW_EXCLUSIVE" /\ ~before.exists) =>
            (CreateDone /\ exists /\ pv.flen = 0)
       /\ (last.fails = {} /\ last.arg = "AKSVIEW_REGULAR") => (CreateDone /\ exists)
       /\ CreateDone => ((FLAG_RO \in pv.flags) <=> (last.arg = "AKSVIEW_READONLY"))
  /\ last.op \notin {"none", "create"} =>
       ((FLAG_RO \in pv.flags) <=> (FLAG_RO \in before.pv.flags))

\* EXCLUSIVE mode was turned away by a file that exists.
C26_Witness ==
  /\ CreateFailed /\ last.arg = "AKSVIEW_EXCLUSIVE" /\ last.fails = {}
  /\ before.exists /\ DOMAIN file # {} /\ last.perr = "OPEN"

\* C27: create returns a viewer exactly when the error code it writes is
\* NONE; on every failure it returns NULL, writes one of BADMODE, TRANSLATE,
\* OPEN, LENQUERY and leaves no file handle open (a descriptor it obtained
\* is closed again); an unrecognised mode gives BADMODE without any backend
\* call, so no file is created or opened.
C27_CreateErrors ==
  last.op = "create" =>
    /\ life \in {"done", "failed"}
    /\ CreateDone <=> last.perr = "NONE"
    /\ CreateDone => (pv.fh # 0 - 1 /\ CallNames = <<"open", "fstat">>)
    /\ CreateFailed =>
         /\ last.perr \in {"BADMODE", "TRANSLATE", "OPEN", "LENQUERY"}
         /\ pv = NoViewer
         /\ last.perr = "OPEN" => CallNames = <<"open", "free_path", "free_pv">>
         /\ last.perr = "LENQUERY" =>
              CallNames = <<"open", "fstat", "free_path", "close", "free_pv">>
    /\ (last.arg \notin Modes) <=> (last.perr = "BADMODE")
    /\ last.perr = "BADMODE" =>
         (CreateFailed /\ calls = <<>> /\ exists = before.exists
            /\ file = before.file /\ disk = before.disk)

\* create gave up after fstat was refused and closed the descriptor again.
C27_Witness ==
  /\ CreateFailed /\ last.perr = "LENQUERY"
  /\ "close" \in {calls[j].f : j \in DOMAIN calls}

\* C28: flush on a viewer that is not dirty or has no window mapped makes no
\* backend call and changes nothing; on a dirty mapped window it makes one
\* backend flush of exactly [wfirst, wlast], clears the dirty flag and leaves
\* the window mapped with the same bounds.
C28_FlushFrame ==
  last.op = "flush" =>
    /\ life = "done"
    /\ IF FLAG_DT \in before.pv.flags /\ before.pv.pw = MAPPED
       THEN /\ CallNames = <<"msync">>
            /\ calls[1].off = before.pv.wfirst
            /\ calls[1].len = (before.pv.wlast - before.pv.wfirst) + 1
            /\ pv = [before.pv EXCEPT !.flags = @ \ {FLAG_DT}]
            /\ region = before.region /\ file = before.file
       ELSE NothingDone

\* flush wrote back a dirty window that does not begin the file.
C28_Witness ==
  /\ life = "done" /\ last.op = "flush"
  /\ CallNames = <<"msync">> /\ calls[1].off > 0
  /\ pv.pw = MAPPED /\ FLAG_DT \notin pv.flags

\* Every munmap of the last call comes right after an msync of the same view,
\* unless the view was clean: the first backend call on a clean window, or,
\* in a call that stores nothing, a view mapped within the call.
MunmapOrder ==
  \A j \in DOMAIN calls :
    calls[j].f = "munmap" =>
      \/ j > 1 /\ calls[j - 1].f = "msync"
           /\ calls[j - 1].off = calls[j].off /\ calls[j - 1].len = calls[j].len
      \/ j = 1 /\ FLAG_DT \notin before.pv.flags
      \/ j > 1 /\ last.op \in {"read", "peek"} /\ calls[j - 1].f = "mmap"

\* C29: a dirty window is never unmapped without being flushed first, on
\* every path that unmaps (a miss by a read or write, the second half of an
\* unaligned write across a window boundary, set_hint, set_length, close):
\* the msync of the window comes right before its munmap, and, no msync
\* having been refused, every byte not yet on stable storage lies in the
\* window that is mapped and dirty now.
C29_FlushBeforeUnmap ==
  /\ last.op # "none" => MunmapOrder
  /\ (Alive /\ ~lost) =>
       \A i \in DOMAIN file :
         file[i] # disk[i] =>
           /\ FLAG_DT \in pv.flags /\ pv.pw = MAPPED
           /\ pv.wfirst <= i /\ i <= pv.wlast

\* An unaligned write crossed a window boundary: the first window was
\* flushed and unmapped between the two halves.
C29_Witness ==
  /\ life = "done" /\ last.op = "write"
  /\ CallNames = <<"mmap", "msync", "munmap", "mmap">>
  /\ FLAG_DT \in pv.flags

\* Every mmap of the last call is made with no view mapped: it is the first
\* backend call of a viewer that had no window, or it comes right after the
\* munmap of the previous window.
MmapOrder ==
  \A j \in DOMAIN calls :
    calls[j].f = "mmap" =>
      \/ j = 1 /\ before.pv.pw = NULL
      \/ j > 1 /\ calls[j - 1].f = "munmap"

C31_AlignmentIndependence ==
  (ReadDone /\ probe.W > 1) =>
    /\ \A i \in 0..(probe.W - 1) : ~Faulted(ReadNow(probe.pos + i))
    /\ last.ret = [k \in 1..probe.W |->
                     IF probe.le THEN ReadNow(probe.pos + (k - 1)).ret[1]
                     ELSE ReadNow(probe.pos + (probe.W - k)).ret[1]]

\* An unaligned 64-bit read whose requested byte order is not the host's
\* took its bytes from two windows.
C31_Witness ==
  /\ ReadDone
  /\ probe.W = 8 /\ probe.pos % 8 # 0
  /\ probe.le # (FLAG_LE \in pv.flags)
  /\ Straddles
  /\ last.ret # Reverse(last.ret)

\* C32: in every reachable state of an open viewer either no window is
\* mapped and wfirst = wlast = -1, or a window is mapped and, for the current
\* window size ws and file length L, wfirst is a multiple of ws, wlast is
\* min(wfirst + ws, L) - 1 and 0 <= wfirst <= wlast < L; a window that is
\* still mapped after set_hint or set_length is one whose window size and
\* file length the call did not change.
C32_WindowConsistency ==
  /\ Alive =>
       \/ pv.pw = NULL /\ pv.wfirst = 0 - 1 /\ pv.wlast = 0 - 1
       \/ /\ pv.pw = MAPPED /\ pv.wlen > 0
          /\ pv.wfirst % pv.wlen = 0
          /\ pv.wlast = (IF pv.wfirst + pv.wlen < pv.flen
                         THEN pv.wfirst + pv.wlen ELSE pv.flen) - 1
          /\ 0 <= pv.wfirst /\ pv.wfirst <= pv.wlast /\ pv.wlast < pv.flen
  /\ (life = "done" /\ last.op \in {"sethint", "setlen"} /\ pv.pw = MAPPED) =>
       /\ pv.wlen = before.pv.wlen /\ pv.flen = before.pv.flen
       /\ pv.wfirst = before.pv.wfirst /\ pv.wlast = before.pv.wlast

\* After the window size had been changed, an access mapped the last window
\* of the file, which the file length cuts short.
C32_Witness ==
  /\ life = "done" /\ pv.pw = MAPPED
  /\ pv.hint # AKSVIEW_DEFAULT_HINT
  /\ pv.wfirst > 0 /\ pv.wlast = pv.flen - 1
  /\ pv.wlast < (pv.wfirst + pv.wlen) - 1
  /\ \E j \in DOMAIN calls : calls[j].f = "mmap"

\* C33: every mmap request has a file offset that is a multiple of the page
\* size (also when the window size is not, having been clamped to the file
\* length), a length of at least 1 and at most the window size, and ends
\* inside the file.
C33_MapRequests ==
  \A j \in DOMAIN calls :
    calls[j].f = "mmap" =>
      /\ calls[j].off >= 0 /\ calls[j].off % pv.pgsize = 0
      /\ 1 <= calls[j].len /\ calls[j].len <= pv.wlen
      /\ calls[j].off + calls[j].len <= pv.flen

\* A window was mapped while the window size, clamped to the file length,
\* was not a multiple of the page size.
C33_Witness ==
  /\ life = "done"
  /\ pv.wlen % pv.pgsize # 0
  /\ \E j \in DOMAIN calls : calls[j].f = "mmap" /\ calls[j].len = pv.wlen

\* C34: in the Windows build the file-mapping object is created only inside
\* a map request and only when none exists; it exists whenever a view is
\* mapped; close destroys it, and so does every set_length with a different
\* length, also when the change then fails; it is kept across window misses
\* and set_hint.
C34_MappingObject ==
  AksWin([pv |-> pv]) =>
    /\ \A j \in DOMAIN calls :
         calls[j].f = "CreateFileMapping" =>
           /\ last.op \in {"read", "write", "peek"}
           /\ before.pv.fh_map = NULL
    /\ (Alive /\ pv.pw = MAPPED) => pv.fh_map # NULL
    /\ CloseDone => pv.fh_map = NULL
    /\ (life = "done" /\ last.op = "setlen" /\ last.arg # before.pv.flen) =>
         pv.fh_map = NULL
    /\ (life = "done" /\ last.op \in {"read", "write", "peek", "sethint"}
          /\ before.pv.fh_map # NULL) => pv.fh_map = before.pv.fh_map

\* The mmap requests of the last call, in order.
MapCalls == SelectSeq(calls, LAMBDA x : x.f = "mmap")

\* C35: with a fixed hint, a file of length L > 0 and no window mapped at
\* the start, accessing the bytes 0 .. L-1 in ascending order with 8-bit
\* reads or writes issues exactly ceil(L / wlen) mmap requests, one per
\* window in ascending order, so no window that was left is mapped again.
C35_ScanCost ==
  (life = "done" /\ last.op = "scan") =>
    /\ Len(MapCalls) = (pv.flen + pv.wlen - 1) \div pv.wlen
    /\ \A k \in DOMAIN MapCalls : MapCalls[k].off = (k - 1) * pv.wlen

\* A writing scan went through three windows or more, the last one short.
C35_Witness ==
  /\ life = "done" /\ last.op = "scan" /\ last.arg = 1
  /\ Len(MapCalls) >= 3
  /\ pv.flen % pv.wlen # 0
  /\ \A i \in DOMAIN file : file[i] = i % 256

\* The line of the rough check of the 16-, 32- or 64-bit accessor the last
\* call was (-1 for the other calls, which have none).
RoughLine ==
  CASE last.op = "read" /\ probe.W = 2 -> IF probe.sgn THEN 1399 ELSE 1342
    [] last.op = "write" /\ probe.W = 2 -> IF probe.sgn THEN 1517 ELSE 1455
    [] last.op = "read" /\ probe.W = 4 -> IF probe.sgn THEN 1643 ELSE 1581
    [] last.op = "write" /\ probe.W = 4 -> IF probe.sgn THEN 1771 ELSE 1704
    [] last.op = "read" /\ probe.W = 8 -> IF probe.sgn THEN 1909 ELSE 1839
    [] last.op = "write" /\ probe.W = 8 -> IF probe.sgn THEN 2053 ELSE 1978
    [] OTHER -> 0 - 1

\* C36: offset arithmetic stays inside the offset type.  A 16-, 32- or
\* 64-bit accessor given a pos below 0 or at least AKSVIEW_MAXLEN faults at
\* its own rough check before anything is computed from pos; the file length
\* is at most AKSVIEW_MAXLEN; so every offset computed from a pos that passed
\* (pos + 7 at most, the window start, the window's last byte, the end of a
\* map request) is at most INT64_MAX, for every pos of the offset type.
C36_OffsetsInRange ==
  /\ (last.op \in {"read", "write"} /\ probe.W > 1
        /\ (probe.pos < 0 \/ probe.pos >= AKSVIEW_MAXLEN)) =>
       /\ last.fault = RoughLine
       /\ calls = <<>> /\ pv = before.pv /\ file = before.file
  /\ Alive => /\ 0 <= pv.flen /\ pv.flen <= AKSVIEW_MAXLEN
              /\ pv.wlast < pv.flen
  /\ (last.op \in {"read", "write"} /\ last.fault # RoughLine) =>
       /\ probe.W > 1 => probe.pos + (probe.W - 1) <= INT64_MAX - 1
       /\ \A j \in DOMAIN calls :
            calls[j].f = "mmap" =>
              /\ 0 <= calls[j].off /\ calls[j].off <= probe.pos + (probe.W - 1)
              /\ calls[j].off + calls[j].len <= AKSVIEW_MAXLEN

\* An unaligned 64-bit read that ends on the last byte of a file of the
\* greatest length returned.
C36_Witness ==
  /\ ReadDone /\ probe.W = 8
  /\ pv.flen = AKSVIEW_MAXLEN
  /\ probe.pos + 8 = AKSVIEW_MAXLEN
  /\ \E j \in DOMAIN calls : calls[j].f = "mmap"

\* C37: the window-size derivation stays inside int32_t.  For every hint of
\* the type and every page size that is at least 8, a multiple of 8 and of
\* the type, the value after the round-up step, (wl / pgsize + 1) * pgsize
\* when wl is not a page multiple, is a page multiple of at least one page
\* and less than one gigabyte plus one page when the page is at most one
\* gigabyte, and is the page size when the page is larger; so it is at most
\* INT32_MAX, and the window size is the smaller of it and the file length.
C37_DerivationInRange ==
  Alive =>
    LET Rounded(wl) ==
          /\ pv.pgsize <= wl /\ wl <= INT32_MAX
          /\ wl % pv.pgsize = 0
          /\ wl - pv.pgsize < ONE_GIGABYTE
          /\ pv.pgsize <= ONE_GIGABYTE => (ONE_GIGABYTE - 1) + pv.pgsize <= INT32_MAX
          /\ pv.wlen = (IF wl > pv.flen THEN pv.flen ELSE wl)
    IN Rounded(WindowLength(pv.hint, pv.pgsize, INT32_MAX))

\* The largest hint with a page size just below one gigabyte: the round-up
\* step gave two pages, sixteen below the end of the type.
C37_Witness ==
  /\ life = "done" /\ last.op = "sethint"
  /\ pv.hint = INT32_MAX /\ pv.pgsize = ONE_GIGABYTE - 8
  /\ pv.wlen = INT32_MAX - 15

\* C38: in every reachable state the dirty flag is set only while a window
\* is mapped: every path that unmaps the window has cleared the flag first,
\* so a viewer without a window is never dirty, and a flush on a dirty
\* viewer always reaches the backend.
C38_DirtyImpliesMapped ==
  /\ FLAG_DT \in pv.flags => pv.pw = MAPPED
  /\ (Alive /\ FLAG_DT \in pv.flags) =>
       Len(aksview_flush(Enter({})).calls) = 1
  /\ (last.op # "none" /\ FLAG_DT \in before.pv.flags /\ pv.pw # MAPPED) =>
       \E j \in DOMAIN calls : calls[j].f = "msync"

\* set_hint changed the window size while a dirty window was mapped: the
\* viewer is left without a window and clean.
C38_Witness ==
  /\ life = "done" /\ last.op = "sethint"
  /\ FLAG_DT \in before.pv.flags /\ before.pv.pw = MAPPED
  /\ pv.pw = NULL /\ FLAG_DT \notin pv.flags

\* The offsets of the windows the call passed to msync.
SyncedOffsets == {calls[j].off : j \in {k \in DOMAIN calls : calls[k].f = "msync"}}

\* C39: when the backend flush is refused inside flush (explicit, or implied
\* by a remap, set_hint, set_length or close), the warn handler is invoked
\* once and the dirty flag is cleared all the same: the call goes on, no
\* window is flushed twice, and a following flush on the same window makes no
\* backend call and changes nothing.  (After a refused flush the flag is set
\* again only by a store of the same write into a window mapped afterwards.)
C39_FailedFlushNotRetried ==
  1256 \in WarnLines =>
    /\ last.op # "write" => (FLAG_DT \in before.pv.flags /\ before.pv.pw = MAPPED)
    /\ Cardinality({j \in DOMAIN last.warns : last.warns[j] = 1256})
         = Cardinality({k \in DOMAIN calls : calls[k].f = "msync"})
    /\ Cardinality(SyncedOffsets) = Cardinality({k \in DOMAIN calls : calls[k].f = "msync"})
    /\ last.fault # 1256
    /\ last.op \in {"sethint", "setlen", "close"} =>
         \E k \in DOMAIN calls :
           k > 1 /\ calls[k - 1].f = "msync" /\ calls[k].f = "munmap"
    /\ last.op # "write" => FLAG_DT \notin pv.flags
    /\ (last.op = "write" /\ FLAG_DT \in pv.flags) =>
         (pv.pw = MAPPED /\ calls[Len(calls)].f = "mmap")
    /\ (Alive /\ FLAG_DT \notin pv.flags) => aksview_flush(Enter({})) = Enter({})

\* An explicit flush of a dirty window was refused: the window stays mapped,
\* clean, with the written bytes missing from stable storage.
C39_Witness ==
  /\ life = "done" /\ last.op = "flush"
  /\ 1256 \in WarnLines
  /\ FLAG_DT \notin pv.flags /\ pv.pw = MAPPED
  /\ \E i \in pv.wfirst .. pv.wlast : disk[i] # file[i]

\* The last backend call of a close on a timestamp-dirty viewer was time()
\* or utime(): the call was refused, for a call that succeeds is followed by
\* the next step of the teardown.
StampRefused ==
  /\ last.op = "close" /\ FLAG_UT \in before.pv.flags
  /\ calls # <<>>
  /\ calls[Len(calls)].f \in {"time", "utime"}

\* C40: in close on a timestamp-dirty viewer, a failure to obtain the
\* current time or to set the last-modified time invokes the fault handler
\* and not the warn handler; this happens after the window has been flushed
\* and unmapped and before the path copy is released and the file handle is
\* closed.  A close that ends without a fault has set the time.
C40_StampFailureFaults ==
  /\ last.op = "close" => WarnLines \cap {1020, 1034} = {}
  /\ (CloseDone /\ FLAG_UT \in before.pv.flags) => mtime = "now"
  /\ StampRefused =>
       /\ life = "faulted"
       /\ last.fault = (IF calls[Len(calls)].f = "time" THEN 1020 ELSE 1034)
       /\ mtime = "old"
       /\ pv.pw = NULL /\ FLAG_DT \notin pv.flags
       /\ before.pv.pw = MAPPED =>
            \E j \in DOMAIN calls :
              /\ calls[j].f = "munmap"
              /\ \A k \in DOMAIN calls : calls[k].f \in {"time", "utime"} => j < k
       /\ FLAG_DT \in before.pv.flags =>
            \E j \in DOMAIN calls :
              /\ calls[j].f = "msync"
              /\ \A k \in DOMAIN calls : calls[k].f \in {"munmap", "time", "utime"} => j < k
       /\ \A k \in DOMAIN calls : calls[k].f \notin {"free_path", "close", "free_pv"}
       /\ pv.pPathCopy # NULL /\ pv.fh # 0 - 1

\* utime() was refused in a close that had a dirty window to flush and unmap.
C40_Witness ==
  /\ StampRefused
  /\ calls[Len(calls)].f = "utime"
  /\ last.fault = 1034
  /\ FLAG_DT \in before.pv.flags /\ before.pv.pw = MAPPED

====
